---- MODULE Spec2Model ----
(***************************************************************************)
(* A model of the go-mongo driver: the connection pool (pool.go) and the   *)
(* struct field-mapping descriptor used by the BSON encoder (bson.go,      *)
(* bson_encode.go).                                                        *)
(***************************************************************************)
EXTENDS Integers, Sequences, FiniteSets, TLC

(***************************************************************************)
(* Bounds of the pool model.                                               *)
(***************************************************************************)
NumCallers == 3
MaxGets == 4
MaxIdleBound == 2

Callers == 1..NumCallers
NoConn == 0
NoErr == "nil"
FactoryErrors == {"dial failed", "auth failed"}

VARIABLES
    maxIdle,      \* capacity of the channel p.conns (NewPool's maxIdle)
    conns,        \* buffered contents of the channel p.conns, oldest first
    created,      \* number of connections the factory has built so far
    connErr,      \* connErr[c]: connection c has recorded a permanent error
    closeCount,   \* closeCount[c]: times c's own Close has been invoked
    pc,           \* pc[p]: where caller p stands
    hConn,        \* hConn[p]: field Conn of the handle caller p holds
    getErr,       \* getErr[p]: error returned by caller p's last Get
    factoryCalls, \* total number of invocations of p.newFn
    factoryErr,   \* error returned by the last invocation of p.newFn
    gets,         \* number of Get calls started
    peakOut       \* largest number of handles checked out at one time

poolVars == <<maxIdle, conns, created, connErr, closeCount, pc, hConn,
              getErr, factoryCalls, factoryErr, gets, peakOut>>

VARIABLES
    t,               \* the record type under test (reflect.Type)
    v,               \* a record value of type t
    structSpecCache, \* the cache of compiled descriptors, by type
    result           \* outcome of the last StructFields or Encode call

specVars == <<t, v, structSpecCache, result>>

VARIABLES
    structSpecMutex, \* the RWMutex: its writer (0: none) and its readers
    cpc,             \* cpc[g]: where goroutine g stands in structSpecForType
    carg,            \* carg[g]: the type goroutine g asked for
    cret,            \* cret[g]: what the last call of goroutine g returned
    specAddr,        \* specAddr[typ]: address of the descriptor cached for typ
    allocs,          \* number of descriptors compiled to the end
    inserts,         \* inserts[typ]: assignments structSpecCache[typ] = ss
    lookups          \* number of calls of structSpecForType started

cacheVars == <<structSpecMutex, cpc, carg, cret, specAddr, allocs, inserts,
               lookups>>

VARIABLES
    oidLock,     \* the goroutine holding oidLock (0: none)
    oidCounter,  \* the uint64 counter, four 16-bit limbs, high limb first
    opc,         \* opc[g]: where goroutine g stands in NewObjectId
    otime,       \* otime[g]: the time.Now() of the call of goroutine g
    oid,         \* oid[g]: the identifier the last call of g returned
    clock,       \* seconds since the epoch
    randReads,   \* number of reads of rand.Reader
    returned,    \* the values nextOidCounter returned, in order
    issued       \* the identifiers made of them, in the same order

oidVars == <<oidLock, oidCounter, opc, otime, oid, clock, randReads,
             returned, issued>>

VARIABLES
    buf,         \* the slice the caller hands to Encode
    other,       \* a second value, encoded on its own
    otherResult  \* what Encode(nil, other) returned

encVars == <<buf, other, otherResult>>

VARIABLES
    cursor,       \* the cursor: server cursor id, batch, position, state
    requests,     \* the requests the cursor handed to its connection
    broken,       \* the transport of the connection has failed
    zeroSeen,     \* a reply has carried the cursor id 0
    ret           \* what the last call on the cursor returned

cursorVars == <<cursor, requests, broken, zeroSeen, ret>>

VARIABLES
    dbIn,         \* the command called last, with what the server did
    dbOut         \* what it returned and the calls it made on the connection

dbVars == <<dbIn, dbOut>>

VARIABLES
    lc,           \* the loggingConn: wrapped connection, prefix, cursorId
    lcalls,       \* calls made on the loggingConn
    logged,       \* the lines handed to the logger: their number, the last
    lcall         \* the last call on the loggingConn and what it returned

logVars == <<lc, lcalls, logged, lcall>>

connVars == <<cursorVars, dbVars, logVars>>

restVars == <<cacheVars, oidVars, encVars, connVars>>

vars == <<poolVars, specVars, restVars>>

Conns == 1..created

RECURSIVE SeqToSet(_)
SeqToSet(s) == IF s = <<>> THEN {} ELSE {Head(s)} \cup SeqToSet(Tail(s))

\* The largest number of handles seen checked out together.
TrackPeak ==
    LET out == Cardinality({q \in Callers : pc'[q] \in {"held", "sel"}})
    IN  peakOut' = IF out > peakOut THEN out ELSE peakOut

(***************************************************************************)
(* NewPool: an empty channel of capacity maxIdle.                          *)
(***************************************************************************)
NewPool ==
    /\ maxIdle \in 0..MaxIdleBound
    /\ conns = <<>>
    /\ created = 0
    /\ connErr = [c \in {} |-> FALSE]
    /\ closeCount = [c \in {} |-> 0]
    /\ pc = [p \in Callers |-> "idle"]
    /\ hConn = [p \in Callers |-> NoConn]
    /\ getErr = [p \in Callers |-> NoErr]
    /\ factoryCalls = 0
    /\ factoryErr = NoErr
    /\ gets = 0
    /\ peakOut = 0

(***************************************************************************)
(* The underlying connection (interface Conn).                             *)
(***************************************************************************)
\* Conn.Err(): the permanent error the connection has recorded, if any.
Err(c) == connErr[c]

\* Conn.Close(): releases the transport and marks the connection failed.
ConnClose(c) ==
    /\ closeCount' = [closeCount EXCEPT ![c] = @ + 1]
    /\ connErr' = [connErr EXCEPT ![c] = TRUE]

\* An operation on the handle's connection meets a transport failure.
Fail(p) ==
    /\ pc[p] = "held"
    /\ hConn[p] # NoConn
    /\ ~connErr[hConn[p]]
    /\ connErr' = [connErr EXCEPT ![hConn[p]] = TRUE]
    /\ UNCHANGED <<maxIdle, conns, created, closeCount, pc, hConn, getErr,
                   factoryCalls, factoryErr, gets>>
    /\ UNCHANGED <<peakOut, specVars, restVars>>

(***************************************************************************)
(* Pool.Get                                                                *)
(***************************************************************************)
\* A caller without a handle calls p.Get().
CallGet(p) ==
    /\ pc[p] = "idle"
    /\ gets < MaxGets
    /\ gets' = gets + 1
    /\ pc' = [pc EXCEPT ![p] = "get"]
    /\ getErr' = [getErr EXCEPT ![p] = NoErr]
    /\ UNCHANGED <<maxIdle, conns, created, connErr, closeCount, hConn,
                   factoryCalls, factoryErr>>
    /\ UNCHANGED <<peakOut, specVars, restVars>>

\* Mutant: a receive without the default case.
GetSelectBlocking(p) ==
    /\ pc[p] = "get"
    /\ conns # <<>>
    /\ conns' = Tail(conns)
    /\ hConn' = [hConn EXCEPT ![p] = Head(conns)]
    /\ pc' = [pc EXCEPT ![p] = "held"]
    /\ UNCHANGED <<maxIdle, created, connErr, closeCount, getErr,
                   factoryCalls, factoryErr, gets>>
    /\ TrackPeak
    /\ UNCHANGED <<specVars, restVars>>

\* Mutant: the factory is preferred to an idle connection.
GetSelectAlwaysNew(p) ==
    /\ pc[p] = "get"
    /\ pc' = [pc EXCEPT ![p] = "new"]
    /\ UNCHANGED <<maxIdle, conns, created, connErr, closeCount, hConn,
                   getErr, factoryCalls, factoryErr, gets>>
    /\ TrackPeak
    /\ UNCHANGED <<specVars, restVars>>

\* select { case c = <-p.conns: ... default: ... }
GetSelect(p) ==
    /\ pc[p] = "get"
    /\ IF conns # <<>>
       THEN /\ conns' = Tail(conns)
            /\ hConn' = [hConn EXCEPT ![p] = Head(conns)]
            /\ pc' = [pc EXCEPT ![p] = "held"]
       ELSE /\ pc' = [pc EXCEPT ![p] = "new"]
            /\ UNCHANGED <<conns, hConn>>
    /\ UNCHANGED <<maxIdle, created, connErr, closeCount, getErr,
                   factoryCalls, factoryErr, gets>>
    /\ TrackPeak
    /\ UNCHANGED <<specVars, restVars>>

\* Mutant: a failed factory call is tried once more and its error dropped.
GetNewRetry(p) ==
    /\ pc[p] = "new"
    /\ \E e \in FactoryErrors :
          /\ factoryCalls' = factoryCalls + 2
          /\ factoryErr' = e
          /\ created' = created + 1
          /\ connErr' = [c \in 1..(created + 1) |->
                            IF c \in Conns THEN connErr[c] ELSE FALSE]
          /\ closeCount' = [c \in 1..(created + 1) |->
                            IF c \in Conns THEN closeCount[c] ELSE 0]
          /\ hConn' = [hConn EXCEPT ![p] = created + 1]
          /\ pc' = [pc EXCEPT ![p] = "held"]
          /\ UNCHANGED getErr
    /\ UNCHANGED <<maxIdle, conns, gets>>
    /\ TrackPeak
    /\ UNCHANGED <<specVars, restVars>>

\* default: c, err = p.newFn(); if err != nil { return nil, err }
GetNew(p) ==
    /\ pc[p] = "new"
    /\ factoryCalls' = factoryCalls + 1
    /\ \/ /\ factoryErr' = NoErr
          /\ created' = created + 1
          /\ connErr' = [c \in 1..(created + 1) |->
                            IF c \in Conns THEN connErr[c] ELSE FALSE]
          /\ closeCount' = [c \in 1..(created + 1) |->
                            IF c \in Conns THEN closeCount[c] ELSE 0]
          /\ hConn' = [hConn EXCEPT ![p] = created + 1]
          /\ pc' = [pc EXCEPT ![p] = "held"]
          /\ UNCHANGED getErr
       \/ \E e \in FactoryErrors :
             /\ factoryErr' = e
             /\ getErr' = [getErr EXCEPT ![p] = e]
             /\ pc' = [pc EXCEPT ![p] = "idle"]
             /\ UNCHANGED <<created, connErr, closeCount, hConn>>
    /\ UNCHANGED <<maxIdle, conns, gets>>
    /\ TrackPeak
    /\ UNCHANGED <<specVars, restVars>>

(***************************************************************************)
(* pooledConnection.Close                                                  *)
(***************************************************************************)
\* Mutant: the permanent error of the connection is not looked at.
CloseCheckNoErr(p) ==
    /\ pc[p] \in {"held", "done"}
    /\ IF hConn[p] = NoConn
       THEN pc' = [pc EXCEPT ![p] = "done"]
       ELSE pc' = [pc EXCEPT ![p] = "sel"]
    /\ UNCHANGED <<maxIdle, conns, created, connErr, closeCount, hConn,
                   getErr, factoryCalls, factoryErr, gets>>
    /\ UNCHANGED <<peakOut, specVars, restVars>>

\* if c.Conn == nil { return nil }; if c.Err() != nil { return nil }
CloseCheck(p) ==
    /\ pc[p] \in {"held", "done"}
    /\ IF hConn[p] = NoConn
       THEN pc' = [pc EXCEPT ![p] = "done"]
       ELSE IF Err(hConn[p])
            THEN pc' = [pc EXCEPT ![p] = "done"]
            ELSE pc' = [pc EXCEPT ![p] = "sel"]
    /\ UNCHANGED <<maxIdle, conns, created, connErr, closeCount, hConn,
                   getErr, factoryCalls, factoryErr, gets>>
    /\ UNCHANGED <<peakOut, specVars, restVars>>

\* Mutant: the handle keeps its connection after the select.
CloseSelectKeepsConn(p) ==
    /\ pc[p] = "sel"
    /\ IF Len(conns) < maxIdle
       THEN /\ conns' = Append(conns, hConn[p])
            /\ UNCHANGED <<connErr, closeCount>>
       ELSE /\ ConnClose(hConn[p])
            /\ UNCHANGED conns
    /\ pc' = [pc EXCEPT ![p] = "done"]
    /\ UNCHANGED <<maxIdle, created, hConn, getErr, factoryCalls, factoryErr,
                   gets>>
    /\ UNCHANGED <<peakOut, specVars, restVars>>

\* Mutant: the send ignores the capacity of the channel.
CloseSelectUnbounded(p) ==
    /\ pc[p] = "sel"
    /\ conns' = Append(conns, hConn[p])
    /\ UNCHANGED <<connErr, closeCount>>
    /\ hConn' = [hConn EXCEPT ![p] = NoConn]
    /\ pc' = [pc EXCEPT ![p] = "done"]
    /\ UNCHANGED <<maxIdle, created, getErr, factoryCalls, factoryErr, gets>>
    /\ UNCHANGED <<peakOut, specVars, restVars>>

\* select { case c.pool.conns <- c.Conn: default: c.Conn.Close() }; c.Conn = nil
CloseSelect(p) ==
    /\ pc[p] = "sel"
    /\ IF Len(conns) < maxIdle
       THEN /\ conns' = Append(conns, hConn[p])
            /\ UNCHANGED <<connErr, closeCount>>
       ELSE /\ ConnClose(hConn[p])
            /\ UNCHANGED conns
    /\ hConn' = [hConn EXCEPT ![p] = NoConn]
    /\ pc' = [pc EXCEPT ![p] = "done"]
    /\ UNCHANGED <<maxIdle, created, getErr, factoryCalls, factoryErr, gets>>
    /\ UNCHANGED <<peakOut, specVars, restVars>>

\* The caller lets go of a handle it has closed.
Drop(p) ==
    /\ pc[p] = "done"
    /\ pc' = [pc EXCEPT ![p] = "idle"]
    /\ hConn' = [hConn EXCEPT ![p] = NoConn]
    /\ UNCHANGED <<maxIdle, conns, created, connErr, closeCount, getErr,
                   factoryCalls, factoryErr, gets>>
    /\ UNCHANGED <<peakOut, specVars, restVars>>

(***************************************************************************)
(* Derived quantities of the pool.                                         *)
(***************************************************************************)
\* Connections whose own Close has not been invoked.
Live == {c \in Conns : closeCount[c] = 0}

\* Callers holding a handle on which Close has not returned.
CheckedOut == {p \in Callers : pc[p] \in {"held", "sel"}}

Idle == SeqToSet(conns)

\* Close has returned on every handle and no Get is in progress.
AllClosed == \A p \in Callers : pc[p] \in {"idle", "done"}

\* No connection has failed in use.
AllHealthy == \A c \in Conns : connErr[c] => closeCount[c] >= 1

(***************************************************************************)
(* 64-bit words.  A word is four limbs of 16 bits, the most significant    *)
(* first, so that the arithmetic keeps the width of uint64 and int64.      *)
(***************************************************************************)
Limb == 65536

Zero64 == <<0, 0, 0, 0>>
Max64 == <<Limb - 1, Limb - 1, Limb - 1, Limb - 1>>

\* w + 1 in uint64: the carry runs from the low limb up and is lost at the top
Inc64(w) ==
    IF w[4] < Limb - 1 THEN <<w[1], w[2], w[3], w[4] + 1>>
    ELSE IF w[3] < Limb - 1 THEN <<w[1], w[2], w[3] + 1, 0>>
    ELSE IF w[2] < Limb - 1 THEN <<w[1], w[2] + 1, 0, 0>>
    ELSE IF w[1] < Limb - 1 THEN <<w[1] + 1, 0, 0, 0>>
    ELSE Zero64

\* the eight bytes of a word, big endian
Bytes64(w) ==
    <<w[1] \div 256, w[1] % 256, w[2] \div 256, w[2] % 256,
      w[3] \div 256, w[3] % 256, w[4] \div 256, w[4] % 256>>

\* the word of a number below 2^31, and of its negative
Word(n) == <<0, 0, n \div Limb, n % Limb>>
Not64(w) == <<Limb - 1 - w[1], Limb - 1 - w[2], Limb - 1 - w[3], Limb - 1 - w[4]>>
Neg64(w) == Inc64(Not64(w))

\* int64(w) < 0
Negative64(w) == w[1] >= Limb \div 2

\* u <= math.MaxInt32, for u uint64
AtMostMaxInt32(w) == w[1] = 0 /\ w[2] = 0 /\ w[3] < Limb \div 2

\* i >= math.MinInt32 && i <= math.MaxInt32, for i int64
InInt32(w) ==
    \/ AtMostMaxInt32(w)
    \/ w[1] = Limb - 1 /\ w[2] = Limb - 1 /\ w[3] >= Limb \div 2

(***************************************************************************)
(* The buffer of the encoder: a sequence of bytes that grows at its end.   *)
(***************************************************************************)
\* The bytes of the Go strings the model uses.
StringBytes(s) ==
    CASE s = "" -> <<>>
      [] s = "X" -> <<88>>
      [] s = "Y" -> <<89>>
      [] s = "E" -> <<69>>
      [] s = "z" -> <<122>>
      [] s = "New" -> <<78, 101, 119>>
      [] s = "_id" -> <<95, 105, 100>>
      [] s = "a" -> <<97>>
      [] s = "b" -> <<98>>
      [] s = "i" -> <<105>>
      [] s = "0" -> <<48>>
      [] s = "1" -> <<49>>
      [] s = "2" -> <<50>>

\* strconv.Itoa(i) and itoas[i], for the lengths the model reaches
itoas == <<"0", "1", "2">>

\* buffer.Next(n): n more bytes at the end
BufferNext(buffer, n) == buffer \o [k \in 1..n |-> 0]

\* buffer.Write(p)
Write(buffer, p) == buffer \o p

\* buffer.WriteByte(b)
WriteByte(buffer, b) == Append(buffer, b)

\* buffer.WriteCString(s): the bytes of s and a zero byte
WriteCString(buffer, s) == buffer \o StringBytes(s) \o <<0>>

\* the four bytes of uint32(w), little endian
Uint32Bytes(w) == <<w[4] % 256, w[4] \div 256, w[3] % 256, w[3] \div 256>>

\* buffer.WriteUint32(uint32(w))
WriteUint32(buffer, w) == buffer \o Uint32Bytes(w)

\* buffer.WriteUint64(w): eight bytes, little endian
WriteUint64(buffer, w) ==
    buffer \o Uint32Bytes(w) \o
        <<w[2] % 256, w[2] \div 256, w[1] % 256, w[1] \div 256>>

\* wire.PutUint32(buffer[offset:offset+4], uint32(n)); offset counts from 0
PutUint32(buffer, offset, n) ==
    [k \in DOMAIN buffer |->
        IF k > offset /\ k <= offset + 4
        THEN Uint32Bytes(Word(n))[k - offset]
        ELSE buffer[k]]

(***************************************************************************)
(* Go values, as reflect.Value shows them: T is the type, K its kind.      *)
(***************************************************************************)
Invalid == [T |-> "", K |-> "Invalid"]
Bool(b) == [T |-> "bool", K |-> "Bool", b |-> b]
Integer(type, kind, w) == [T |-> type, K |-> kind, w |-> w]
Float64(bits) == [T |-> "float64", K |-> "Float64", bits |-> bits]
String(type, s) == [T |-> type, K |-> "String", s |-> s]
ObjectId(bytes) == [T |-> "mongo.ObjectId", K |-> "String", bytes |-> bytes]
Regexp(pattern, options) ==
    [T |-> "mongo.Regexp", K |-> "Struct", Pattern |-> pattern,
     Options |-> options]
BSONData(kind, data) ==
    [T |-> "mongo.BSONData", K |-> "Struct", Kind |-> kind, Data |-> data]
Time(isZero, ms) ==
    [T |-> "time.Time", K |-> "Struct", isZero |-> isZero, ms |-> ms]
\* a map value: isNil, its keys in the order MapKeys delivers them, and the
\* element of each key
Map(type, keyKind, isNil, keys, elems) ==
    [T |-> type, K |-> "Map", keyKind |-> keyKind, isNil |-> isNil,
     keys |-> keys, elems |-> elems]
CodeWithScope(code, scope) ==
    [T |-> "mongo.CodeWithScope", K |-> "Struct", Code |-> code,
     Scope |-> scope]
DocItem(key, value) == [Key |-> key, Value |-> value]
D(isNil, items) == [T |-> "mongo.D", K |-> "Slice", isNil |-> isNil, items |-> items]
Slice(type, elemKind, isNil, items) ==
    [T |-> type, K |-> "Slice", elemKind |-> elemKind, isNil |-> isNil,
     items |-> items]
Array(type, items) == [T |-> type, K |-> "Array", items |-> items]
Struct(typ, fields) == [T |-> "struct", K |-> "Struct", typ |-> typ, fields |-> fields]
\* an interface holding elem, or a pointer to elem; nil when isNil
Interface(isNil, elem) ==
    [T |-> "interface {}", K |-> "Interface", isNil |-> isNil, elem |-> elem]
Ptr(type, isNil, elem) == [T |-> type, K |-> "Ptr", isNil |-> isNil, elem |-> elem]
\* a value of a type without encoder
Other(type, kind) == [T |-> type, K |-> kind]

\* reflect.ValueOf(x) for the x an interface holds: the zero Value for nil
ValueOf(i) == IF i.isNil THEN Invalid ELSE i.elem

(***************************************************************************)
(* The encoder.  e is the encodeState: its buffer and, once abort or a     *)
(* panic has stopped the traversal, the error; log keeps the calls of      *)
(* writeKindName, docs the calls of endDoc and types the record types      *)
(* whose descriptor was asked for.                                         *)
(***************************************************************************)
kindFloat == 1
kindString == 2
kindDocument == 3
kindArray == 4
kindBinary == 5
kindObjectId == 7
kindBool == 8
kindDateTime == 9
kindRegexp == 11
kindCode == 13
kindSymbol == 14
kindCodeWithScope == 15
kindInt32 == 16
kindTimestamp == 17
kindInt64 == 18
kindMinValue == 255
kindMaxValue == 127

NoError == [kind |-> "nil"]
EncodeTypeError(type) == [kind |-> "EncodeTypeError", Type |-> type]
errorsNew(text) == [kind |-> "errorString", text |-> text]
\* a panic that is not an abort: handleAbort passes it on
Panic == [kind |-> "panic"]

defaultFieldSpec == [name |-> "", omitEmpty |-> FALSE]

encodeState(p) ==
    [buffer |-> p, err |-> NoError, log |-> <<>>, docs |-> <<>>,
     types |-> <<>>, depth |-> 0]

\* abort(err): panic(aborted{err})
abort(e, err) == [e EXCEPT !.err = err]

beginDoc(e) ==
    [e EXCEPT !.buffer = BufferNext(@, 4), !.depth = @ + 1]

endDoc(e, offset) ==
    [e EXCEPT !.buffer = PutUint32(@, offset, Len(e.buffer) - offset),
              !.docs = Append(@, [offset |-> offset, end |-> Len(e.buffer)]),
              !.depth = @ - 1]

writeKindName(e, kind, name) ==
    [e EXCEPT !.buffer = WriteCString(WriteByte(@, kind % 256), name),
              !.log = Append(@, [kind |-> kind, name |-> name,
                                 at |-> Len(e.buffer), depth |-> e.depth])]

encodeBool(e, name, fs, val) ==
    IF val.b = FALSE /\ fs.omitEmpty THEN e
    ELSE LET e1 == writeKindName(e, kindBool, name) IN
         [e1 EXCEPT !.buffer = WriteByte(@, IF val.b THEN 1 ELSE 0)]

encodeInt32(e, name, fs, val) ==
    IF val.w = Zero64 /\ fs.omitEmpty THEN e
    ELSE LET e1 == writeKindName(e, kindInt32, name) IN
         [e1 EXCEPT !.buffer = WriteUint32(@, val.w)]

\* Mutant: an int is always laid out in 32 bits.
encodeIntNarrow(e, name, fs, val) == encodeInt32(e, name, fs, val)

encodeInt(e, name, fs, val) ==
    IF val.w = Zero64 /\ fs.omitEmpty THEN e
    ELSE IF InInt32(val.w)
    THEN LET e1 == writeKindName(e, kindInt32, name) IN
         [e1 EXCEPT !.buffer = WriteUint32(@, val.w)]
    ELSE LET e1 == writeKindName(e, kindInt64, name) IN
         [e1 EXCEPT !.buffer = WriteUint64(@, val.w)]

encodeUint16(e, name, fs, val) ==
    IF val.w = Zero64 /\ fs.omitEmpty THEN e
    ELSE LET e1 == writeKindName(e, kindInt32, name) IN
         [e1 EXCEPT !.buffer = WriteUint32(@, val.w)]

\* Mutant: a value beyond int64 is written as it is.
encodeUintNoCheck(e, name, fs, val) ==
    IF val.w = Zero64 /\ fs.omitEmpty THEN e
    ELSE IF AtMostMaxInt32(val.w)
    THEN LET e1 == writeKindName(e, kindInt32, name) IN
         [e1 EXCEPT !.buffer = WriteUint32(@, val.w)]
    ELSE LET e1 == writeKindName(e, kindInt64, name) IN
         [e1 EXCEPT !.buffer = WriteUint64(@, val.w)]

encodeUint(e, name, fs, val) ==
    IF val.w = Zero64 /\ fs.omitEmpty THEN e
    ELSE IF Negative64(val.w)
    THEN abort(e, errorsNew("bson: uint value does not fit in int64"))
    ELSE IF AtMostMaxInt32(val.w)
    THEN LET e1 == writeKindName(e, kindInt32, name) IN
         [e1 EXCEPT !.buffer = WriteUint32(@, val.w)]
    ELSE LET e1 == writeKindName(e, kindInt64, name) IN
         [e1 EXCEPT !.buffer = WriteUint64(@, val.w)]

encodeInt64(e, kind, name, fs, val) ==
    IF val.w = Zero64 /\ fs.omitEmpty THEN e
    ELSE LET e1 == writeKindName(e, kind, name) IN
         [e1 EXCEPT !.buffer = WriteUint64(@, val.w)]

encodeUint64(e, name, fs, val) ==
    IF val.w = Zero64 /\ fs.omitEmpty THEN e
    ELSE IF Negative64(val.w)
    THEN abort(e, errorsNew("bson: uint64 value does not fit in int64"))
    ELSE LET e1 == writeKindName(e, kindInt64, name) IN
         [e1 EXCEPT !.buffer = WriteUint64(@, val.w)]

\* f == 0 holds for both zeros of float64
encodeFloat(e, name, fs, val) ==
    IF val.bits \in {Zero64, <<Limb \div 2, 0, 0, 0>>} /\ fs.omitEmpty THEN e
    ELSE LET e1 == writeKindName(e, kindFloat, name) IN
         [e1 EXCEPT !.buffer = WriteUint64(@, val.bits)]

encodeString(e, kind, name, fs, val) ==
    IF val.s = "" /\ fs.omitEmpty THEN e
    ELSE LET e1 == writeKindName(e, kind, name) IN
         [e1 EXCEPT !.buffer =
             WriteCString(WriteUint32(@, Word(Len(StringBytes(val.s)) + 1)),
                          val.s)]

encodeRegexp(e, name, fs, val) ==
    IF val.Pattern = "" /\ fs.omitEmpty THEN e
    ELSE LET e1 == writeKindName(e, kindRegexp, name) IN
         [e1 EXCEPT !.buffer =
             WriteCString(WriteCString(@, val.Pattern), val.Options)]

\* Mutant: a wrong length is reported as an error of the type.
encodeObjectIdTyped(e, name, fs, val) ==
    IF val.bytes = <<>> THEN e
    ELSE IF Len(val.bytes) # 12
    THEN abort(e, EncodeTypeError(val.T))
    ELSE LET e1 == writeKindName(e, kindObjectId, name) IN
         [e1 EXCEPT !.buffer = Write(@, val.bytes)]

encodeObjectId(e, name, fs, val) ==
    IF val.bytes = <<>> THEN e
    ELSE IF Len(val.bytes) # 12
    THEN abort(e, errorsNew("bson: object id length != 12"))
    ELSE LET e1 == writeKindName(e, kindObjectId, name) IN
         [e1 EXCEPT !.buffer = Write(@, val.bytes)]

encodeBSONData(e, name, fs, val) ==
    IF val.Kind = 0 THEN e
    ELSE LET e1 == writeKindName(e, val.Kind, name) IN
         [e1 EXCEPT !.buffer = Write(@, val.Data)]

encodeMinMax(e, name, fs, val) ==
    IF val.w = Zero64 /\ fs.omitEmpty THEN e
    ELSE IF val.w = Word(1) THEN writeKindName(e, kindMaxValue, name)
    ELSE IF val.w = Neg64(Word(1)) THEN writeKindName(e, kindMinValue, name)
    ELSE abort(e, errorsNew("bson: unknown MinMax value"))

encodeTime(e, name, fs, val) ==
    IF val.isZero /\ fs.omitEmpty THEN e
    ELSE LET e1 == writeKindName(e, kindDateTime, name) IN
         [e1 EXCEPT !.buffer = WriteUint64(@, val.ms)]

encodeByteSlice(e, name, fs, val) ==
    IF val.isNil THEN e
    ELSE LET e1 == writeKindName(e, kindBinary, name) IN
         [e1 EXCEPT !.buffer =
             Write(WriteByte(WriteUint32(@, Word(Len(val.items))), 0),
                   [k \in DOMAIN val.items |-> val.items[k].w[4]])]

(***************************************************************************)
(* Record types, as reflect.Type shows them.  A type is the sequence of    *)
(* its fields; a field has the members of reflect.StructField.  The bson   *)
(* tag is held as its pieces: the commas, and the texts between them.      *)
(***************************************************************************)
MaxFields == 2
MaxEmbeddedFields == 2

Field(name, pkgPath, anonymous, kind, type, tag) ==
    [Name |-> name, PkgPath |-> pkgPath, Anonymous |-> anonymous,
     Kind |-> kind, Type |-> type, Tag |-> tag]

\* Fields of kind int, with the tags under test.
ScalarFields ==
    { Field("X", "", FALSE, "Int", <<>>, <<>>),
      Field("X", "", FALSE, "Int", <<>>, <<"-">>),
      Field("Y", "", FALSE, "Int", <<>>, <<"X">>),
      Field("Y", "", FALSE, "Int", <<>>, <<",", "omitempty">>),
      Field("z", "mongo", FALSE, "Int", <<>>, <<>>) }

Embedded(type) == Field("E", "", TRUE, "Struct", type, <<>>)

\* Go rejects a struct that declares one field name twice.
DistinctNames(fields) ==
    \A i, j \in DOMAIN fields :
        (i # j /\ ~fields[i].Anonymous /\ ~fields[j].Anonymous)
            => fields[i].Name # fields[j].Name

StructsOf(members, n) ==
    {s \in UNION {[1..k -> members] : k \in 0..n} : DistinctNames(s)}

LeafTypes == StructsOf(ScalarFields, MaxEmbeddedFields)

\* A record that embeds nothing but one record of at most one field.
WrapperTypes == { <<Embedded(e)>> : e \in StructsOf(ScalarFields, 1) }

EmbeddedTypes == LeafTypes \cup WrapperTypes

RecordTypes ==
    StructsOf(ScalarFields \cup {Embedded(e) : e \in EmbeddedTypes}, MaxFields)

\* The record of type typ whose int fields all hold different non-zero
\* values: the field at index path index holds PathValue(index).
RECURSIVE PathValue(_)
PathValue(index) ==
    IF index = <<>> THEN 0
    ELSE PathValue(SubSeq(index, 1, Len(index) - 1)) * 10
             + index[Len(index)] + 1

RECURSIVE RecordOf(_, _)
RecordOf(typ, index) ==
    Struct(typ,
           [i \in DOMAIN typ |->
               IF typ[i].Kind = "Struct"
               THEN RecordOf(typ[i].Type, Append(index, i - 1))
               ELSE Integer("int", "Int", Word(PathValue(Append(index, i - 1))))])

(***************************************************************************)
(* compileStructSpec                                                       *)
(***************************************************************************)
NotFoundDepth == 1073741824

\* strings.Split(tag, ","): the texts between the commas, "" where two
\* separators meet or the tag starts or ends with one.
RECURSIVE Split(_)
Split(tag) ==
    IF tag = <<>> THEN <<"">>
    ELSE IF Head(tag) = ","
         THEN <<"">> \o Split(Tail(tag))
         ELSE IF Len(tag) = 1 THEN <<Head(tag)>>
              ELSE <<Head(tag)>> \o Split(Tail(Tail(tag)))

\* strings.Contains(tag, "/c")
ContainsSlashC(tag) == \E k \in DOMAIN tag : tag[k] \in {"/c", "new/c", "upsert/c"}

\* fs := &fieldSpec{name: f.Name} and the reading of the tag.
fieldSpecOf(f) ==
    LET p == Split(f.Tag) IN
    [name |-> IF Len(p) > 0 /\ p[1] # "-" /\ p[1] # "" THEN p[1] ELSE f.Name,
     omitEmpty |-> Len(p) > 0 /\ p[1] # "-"
                       /\ \E k \in 2..Len(p) : p[k] = "omitempty",
     panic |-> \/ ContainsSlashC(f.Tag)
               \/ Len(p) > 0 /\ p[1] # "-"
                       /\ \E k \in 2..Len(p) : p[k] # "omitempty"]

\* The empty descriptor: &structSpec{m: make(map[string]*fieldSpec)}, with
\* the depth map make(map[string]int).
EmptySpec == [depth |-> <<>>, m |-> <<>>, l |-> <<>>, panic |-> FALSE]

MapPut(f, k, val) == [x \in DOMAIN f \cup {k} |-> IF x = k THEN val ELSE f[x]]
MapDelete(f, k) == [x \in DOMAIN f \ {k} |-> f[x]]

\* Mutant: a collision at equal depth leaves the first field in place.
addFieldKeepFirst(f, i, index, ss) ==
    LET fs0 == fieldSpecOf(f)
        d == IF fs0.name \in DOMAIN ss.depth THEN ss.depth[fs0.name]
             ELSE NotFoundDepth
        fs == [name |-> fs0.name, index |-> Append(index, i),
               omitEmpty |-> fs0.omitEmpty]
    IN  IF fs0.panic THEN [ss EXCEPT !.panic = TRUE]
        ELSE IF Len(index) < d
             THEN [depth |-> MapPut(ss.depth, fs.name, Len(index)),
                   m |-> MapPut(ss.m, fs.name, fs),
                   l |-> Append(ss.l, fs),
                   panic |-> FALSE]
             ELSE ss

\* The default case of the switch: an exported field that is not embedded.
addField(f, i, index, ss) ==
    LET fs0 == fieldSpecOf(f)
        d == IF fs0.name \in DOMAIN ss.depth THEN ss.depth[fs0.name]
             ELSE NotFoundDepth
        fs == [name |-> fs0.name, index |-> Append(index, i),
               omitEmpty |-> fs0.omitEmpty]
    IN  IF fs0.panic THEN [ss EXCEPT !.panic = TRUE]
        ELSE IF Len(index) = d
             THEN [ss EXCEPT !.m = MapDelete(ss.m, fs.name),
                             !.l = SelectSeq(ss.l, LAMBDA e : e.name # fs.name)]
             ELSE IF Len(index) < d
                  THEN [depth |-> MapPut(ss.depth, fs.name, Len(index)),
                        m |-> MapPut(ss.m, fs.name, fs),
                        l |-> Append(ss.l, fs),
                        panic |-> FALSE]
                  ELSE ss

\* for i := 0; i < t.NumField(); i++ { switch ... }, from field i on.
RECURSIVE compileFrom(_, _, _, _)
compileFrom(typ, i, index, ss) ==
    IF ss.panic \/ i >= Len(typ) THEN ss
    ELSE LET f == typ[i + 1] IN
         IF f.PkgPath # ""
         THEN compileFrom(typ, i + 1, index, ss)
         ELSE IF f.Anonymous
              THEN IF f.Kind = "Struct"
                   THEN compileFrom(typ, i + 1, index,
                            compileFrom(f.Type, 0, Append(index, i), ss))
                   ELSE compileFrom(typ, i + 1, index, ss)
              ELSE compileFrom(typ, i + 1, index, addField(f, i, index, ss))

compileStructSpec(typ, index, ss) == compileFrom(typ, 0, index, ss)

\* The projection ss.fields: every name but _id with 1, and _id with 0
\* when no field is named _id.
RECURSIVE fieldsOf(_)
fieldsOf(l) ==
    IF l = <<>> THEN <<>>
    ELSE IF Head(l).name = "_id" THEN fieldsOf(Tail(l))
         ELSE <<[Key |-> Head(l).name, Value |-> 1]>> \o fieldsOf(Tail(l))

\* The descriptor structSpecForType compiles for a type it has not seen.
newStructSpec(typ) ==
    LET ss == compileStructSpec(typ, <<>>, EmptySpec)
        hasId == \E k \in DOMAIN ss.l : ss.l[k].name = "_id"
    IN  [m |-> ss.m, l |-> ss.l, panic |-> ss.panic,
         fields |-> IF hasId THEN fieldsOf(ss.l)
                    ELSE Append(fieldsOf(ss.l), [Key |-> "_id", Value |-> 0])]

\* The descriptor structSpecForType returns: the cached one, if any.
structSpecForType(typ) ==
    IF typ \in DOMAIN structSpecCache THEN structSpecCache[typ]
    ELSE newStructSpec(typ)

(***************************************************************************)
(* The traversal of the encoder.                                           *)
(***************************************************************************)
\* reflect.Value.FieldByIndex
RECURSIVE FieldByIndex(_, _)
FieldByIndex(val, index) ==
    IF Len(index) = 1 THEN val.fields[index[1] + 1]
    ELSE FieldByIndex(val.fields[index[1] + 1], Tail(index))

\* v.MapIndex(key), for a key the map holds
MapIndex(val, key) ==
    val.elems[CHOOSE k \in DOMAIN val.keys : val.keys[k] = key]

\* F(x), with x worked out once: the step that follows a step
Then(x, F(_)) == CHOOSE r \in {F(y) : y \in {x}} : TRUE

\* e.WriteByte(0); e.endDoc(offset), unless the traversal has stopped
closeDoc(e, offset) ==
    IF e.err.kind # "nil" THEN e
    ELSE endDoc([e EXCEPT !.buffer = WriteByte(@, 0)], offset)

RECURSIVE encodeValue(_, _, _, _)

\* for _, fs := range ss.l { e.encodeValue(fs.name, fs, v.FieldByIndex(fs.index)) }
RECURSIVE writeFields(_, _, _)
writeFields(e, l, val) ==
    IF l = <<>> \/ e.err.kind # "nil" THEN e
    ELSE Then(encodeValue(e, Head(l).name, Head(l),
                          FieldByIndex(val, Head(l).index)),
              LAMBDA e1 : writeFields(e1, Tail(l), val))

writeStruct(e, val) ==
    Then(structSpecForType(val.typ), LAMBDA ss :
        IF ss.panic THEN [beginDoc(e) EXCEPT !.err = Panic]
        ELSE Then(writeFields([beginDoc(e) EXCEPT !.types = Append(@, val.typ)],
                              ss.l, val),
                  LAMBDA e1 : closeDoc(e1, Len(e.buffer))))

\* for _, k := range v.MapKeys() { ... }
RECURSIVE writeKeys(_, _, _, _)
writeKeys(e, val, k, skipId) ==
    IF k > Len(val.keys) \/ e.err.kind # "nil" THEN e
    ELSE IF skipId /\ val.keys[k] = "_id" THEN writeKeys(e, val, k + 1, skipId)
    ELSE Then(encodeValue(e, val.keys[k], defaultFieldSpec, val.elems[k]),
              LAMBDA e1 : writeKeys(e1, val, k + 1, skipId))

\* offset := e.beginDoc() and what follows it in writeMap
writeMapDoc(e, val, topLevel) ==
    LET skipId == topLevel /\ \E k \in DOMAIN val.keys : val.keys[k] = "_id" IN
    Then(IF skipId
         THEN encodeValue(beginDoc(e), "_id", defaultFieldSpec,
                          MapIndex(val, "_id"))
         ELSE beginDoc(e),
         LAMBDA e1 :
             Then(writeKeys(e1, val, 1, skipId),
                  LAMBDA e2 : closeDoc(e2, Len(e.buffer))))

writeMap(e, val, topLevel) ==
    IF val.isNil THEN e
    ELSE IF val.keyKind # "String" THEN abort(e, EncodeTypeError(val.T))
    ELSE writeMapDoc(e, val, topLevel)

\* for _, kv := range v { e.encodeValue(kv.Key, defaultFieldSpec, reflect.ValueOf(kv.Value)) }
RECURSIVE writeItems(_, _)
writeItems(e, items) ==
    IF items = <<>> \/ e.err.kind # "nil" THEN e
    ELSE Then(encodeValue(e, Head(items).Key, defaultFieldSpec,
                          ValueOf(Head(items).Value)),
              LAMBDA e1 : writeItems(e1, Tail(items)))

writeD(e, val) ==
    Then(writeItems(beginDoc(e), val.items),
         LAMBDA e1 : closeDoc(e1, Len(e.buffer)))

\* for k, v := range c.Scope { e.encodeValue(k, defaultFieldSpec, reflect.ValueOf(v)) }
RECURSIVE writeScope(_, _, _)
writeScope(e, scope, k) ==
    IF k > Len(scope.keys) \/ e.err.kind # "nil" THEN e
    ELSE Then(encodeValue(e, scope.keys[k], defaultFieldSpec,
                          ValueOf(scope.elems[k])),
              LAMBDA e1 : writeScope(e1, scope, k + 1))

encodeCodeWithScope(e, name, fs, val) ==
    IF val.Code = "" /\ val.Scope.isNil /\ fs.omitEmpty THEN e
    ELSE Then(writeKindName(e, kindCodeWithScope, name), LAMBDA e1 :
         Then([beginDoc(e1) EXCEPT !.buffer =
                  WriteCString(
                      WriteUint32(@, Word(Len(StringBytes(val.Code)) + 1)),
                      val.Code)],
              LAMBDA e2 :
         Then(writeScope(beginDoc(e2), val.Scope, 1), LAMBDA e3 :
         Then(closeDoc(e3, Len(e2.buffer)), LAMBDA e4 :
              IF e4.err.kind # "nil" THEN e4
              ELSE endDoc(e4, Len(e1.buffer))))))

encodeStruct(e, name, fs, val) ==
    writeStruct(writeKindName(e, kindDocument, name), val)

encodeMap(e, name, fs, val) ==
    IF val.isNil THEN e
    ELSE writeMap(writeKindName(e, kindDocument, name), val, FALSE)

encodeD(e, name, fs, val) ==
    IF val.isNil THEN e
    ELSE writeD(writeKindName(e, kindDocument, name), val)

\* for i, k := range itoas[:n] { e.encodeValue(k, defaultFieldSpec, v.Index(i)) }
RECURSIVE writeElems(_, _, _)
writeElems(e, val, i) ==
    IF i > Len(val.items) \/ e.err.kind # "nil" THEN e
    ELSE Then(encodeValue(e, itoas[i], defaultFieldSpec, val.items[i]),
              LAMBDA e1 : writeElems(e1, val, i + 1))

encodeArray(e, name, fs, val) ==
    Then(writeKindName(e, kindArray, name), LAMBDA e1 :
         Then(writeElems(beginDoc(e1), val, 1),
              LAMBDA e2 : closeDoc(e2, Len(e1.buffer))))

encodeSlice(e, name, fs, val) ==
    IF val.isNil THEN e
    ELSE IF val.elemKind = "Uint8" THEN encodeByteSlice(e, name, fs, val)
    ELSE encodeArray(e, name, fs, val)

encodeInterfaceOrPtr(e, name, fs, val) ==
    IF val.isNil THEN e
    ELSE encodeValue(e, name, defaultFieldSpec, val.elem)

\* typeEncoder[t], then kindEncoder[t.Kind()]
encodeValue(e, name, fs, val) ==
    IF val.K = "Invalid" THEN e
    ELSE CASE val.T = "mongo.D" -> encodeD(e, name, fs, val)
           [] val.T = "mongo.BSONData" -> encodeBSONData(e, name, fs, val)
           [] val.T = "mongo.Code" -> encodeString(e, kindCode, name, fs, val)
           [] val.T = "mongo.CodeWithScope" -> encodeCodeWithScope(e, name, fs, val)
           [] val.T = "time.Time" -> encodeTime(e, name, fs, val)
           [] val.T = "mongo.MinMax" -> encodeMinMax(e, name, fs, val)
           [] val.T = "mongo.ObjectId" -> encodeObjectId(e, name, fs, val)
           [] val.T = "mongo.Regexp" -> encodeRegexp(e, name, fs, val)
           [] val.T = "mongo.Symbol" -> encodeString(e, kindSymbol, name, fs, val)
           [] val.T = "mongo.Timestamp" -> encodeInt64(e, kindTimestamp, name, fs, val)
           [] OTHER ->
              CASE val.K = "Array" -> encodeArray(e, name, fs, val)
                [] val.K = "Bool" -> encodeBool(e, name, fs, val)
                [] val.K \in {"Float32", "Float64"} -> encodeFloat(e, name, fs, val)
                [] val.K \in {"Int8", "Int16", "Int32"} -> encodeInt32(e, name, fs, val)
                [] val.K = "Int" -> encodeInt(e, name, fs, val)
                [] val.K \in {"Uint8", "Uint16"} -> encodeUint16(e, name, fs, val)
                [] val.K \in {"Uint32", "Uint"} -> encodeUint(e, name, fs, val)
                [] val.K = "Uint64" -> encodeUint64(e, name, fs, val)
                [] val.K = "Int64" -> encodeInt64(e, kindInt64, name, fs, val)
                [] val.K \in {"Interface", "Ptr"} -> encodeInterfaceOrPtr(e, name, fs, val)
                [] val.K = "Map" -> encodeMap(e, name, fs, val)
                [] val.K = "Slice" -> encodeSlice(e, name, fs, val)
                [] val.K = "String" -> encodeString(e, kindString, name, fs, val)
                [] val.K = "Struct" -> encodeStruct(e, name, fs, val)
                [] OTHER -> abort(e, EncodeTypeError(val.T))

\* A slice of bytes: nil, or its bytes.
NilSlice == [isNil |-> TRUE, bytes |-> <<>>]
Bytes(p) == [isNil |-> FALSE, bytes |-> p]

\* Mutant: after an abort the bytes written so far are handed back.
ReturnPartial(buffer0, e) ==
    [panic |-> e.err.kind = "panic",
     result |-> IF buffer0.isNil /\ e.buffer = <<>> THEN NilSlice
                ELSE Bytes(e.buffer),
     err |-> IF e.err.kind = "panic" THEN NoError ELSE e.err,
     e |-> e]

\* return e.buffer, nil; or, after abort, handleAbort(&err) with the named
\* result left nil; or the panic that handleAbort passes on.
Return(buffer0, e) ==
    [panic |-> e.err.kind = "panic",
     result |-> IF e.err.kind # "nil" THEN NilSlice
                ELSE IF buffer0.isNil /\ e.buffer = <<>> THEN NilSlice
                ELSE Bytes(e.buffer),
     err |-> IF e.err.kind = "panic" THEN NoError ELSE e.err,
     e |-> e]

\* Encode(buf, doc); e is the encodeState it ended with.
EncodeResult(buffer0, doc) ==
    LET val == IF doc.K \in {"Interface", "Ptr"}
               THEN IF doc.isNil THEN Invalid ELSE doc.elem
               ELSE doc
        e == encodeState(buffer0.bytes)
    IN  Then(IF val.K = "Invalid" THEN [e EXCEPT !.err = Panic]
             ELSE IF val.T = "mongo.D" THEN writeD(e, val)
             ELSE IF val.T = "mongo.BSONData"
             THEN IF val.Kind # kindDocument
                  THEN abort(e, EncodeTypeError(val.T))
                  ELSE [e EXCEPT !.buffer = Write(@, val.Data)]
             ELSE IF val.K = "Struct" THEN writeStruct(e, val)
             ELSE IF val.K = "Map" THEN writeMap(e, val, TRUE)
             ELSE abort(e, EncodeTypeError(val.T)),
             LAMBDA e1 : Return(buffer0, e1))

NoResult == [call |-> "none"]

\* The cache after the descriptors of the types were put into it.
RECURSIVE CacheWith(_, _)
CacheWith(cache, types) ==
    IF types = <<>> THEN cache
    ELSE CacheWith(IF Head(types) \in DOMAIN cache THEN cache
                   ELSE MapPut(cache, Head(types), newStructSpec(Head(types))),
                   Tail(types))

\* The elements of the outermost document, as the calls of writeKindName and
\* the buffer show them: kind, name and the bytes that follow the name.
TopElements(e) ==
    LET top == SelectSeq(e.log, LAMBDA x : x.depth = 1)
        first(k) == top[k].at + Len(StringBytes(top[k].name)) + 3
        last(k) == IF k < Len(top) THEN top[k + 1].at ELSE Len(e.buffer) - 1
    IN  [k \in DOMAIN top |->
            [kind |-> top[k].kind, name |-> top[k].name,
             value |-> SubSeq(e.buffer, first(k), last(k))]]

\* What a call of Encode leaves to look at.
Outcome(buffer0, r) ==
    [call |-> "Encode", panic |-> r.panic, result |-> r.result, err |-> r.err,
     before |-> Len(buffer0.bytes), buffer |-> r.e.buffer, log |-> r.e.log,
     docs |-> r.e.docs,
     doc |-> IF r.panic \/ r.err.kind # "nil" THEN <<>> ELSE TopElements(r.e)]

\* StructFields(t)
StructFields ==
    LET ss == structSpecForType(t) IN
    /\ IF ss.panic
       THEN /\ result' = [call |-> "StructFields", panic |-> TRUE]
            /\ UNCHANGED structSpecCache
       ELSE /\ result' = [call |-> "StructFields", panic |-> FALSE,
                          fields |-> ss.fields]
            /\ structSpecCache' = MapPut(structSpecCache, t, ss)
    /\ UNCHANGED <<t, v, poolVars, restVars>>

\* Encode(buf, v)
Encode ==
    \E r \in {EncodeResult(buf, v)} :
    /\ result' = Outcome(buf, r)
    /\ structSpecCache' = CacheWith(structSpecCache, r.e.types)
    /\ UNCHANGED <<t, v, poolVars, restVars>>

\* Encode(nil, other)
EncodeOther ==
    \E r \in {EncodeResult(NilSlice, other)} :
    /\ otherResult' = Outcome(NilSlice, r)
    /\ structSpecCache' = CacheWith(structSpecCache, r.e.types)
    /\ UNCHANGED <<t, v, result, poolVars, cacheVars, oidVars, buf, other,
                   connVars>>

(***************************************************************************)
(* The values handed to Encode.                                            *)
(***************************************************************************)
MaxItems == 2

MaxInt32 == <<0, 0, Limb \div 2 - 1, Limb - 1>>
MinInt32 == <<Limb - 1, Limb - 1, Limb \div 2, 0>>
MaxInt64 == <<Limb \div 2 - 1, Limb - 1, Limb - 1, Limb - 1>>
MinInt64 == <<Limb \div 2, 0, 0, 0>>

Signed(type, kind, words) == [k \in DOMAIN words |-> Integer(type, kind, words[k])]

\* Values of the signed integer types, at the ends of their ranges and
\* around the ends of int32.
SignedValues ==
    Signed("int", "Int", <<Zero64, Word(1), Neg64(Word(1)), MaxInt32,
                           Inc64(MaxInt32), MinInt32, Not64(Inc64(MaxInt32)),
                           MaxInt64, MinInt64>>)
    \o Signed("int8", "Int8", <<Zero64, Word(127), Neg64(Word(128))>>)
    \o Signed("int16", "Int16", <<Zero64, Word(32767), Neg64(Word(32768))>>)
    \o Signed("int32", "Int32", <<Zero64, Word(1), MaxInt32, MinInt32>>)
    \o Signed("int64", "Int64", <<Zero64, Word(1), Neg64(Word(1)), MaxInt32,
                                  Inc64(MaxInt32), MinInt32, MaxInt64, MinInt64>>)

\* Values of the unsigned integer types.
UnsignedValues ==
    Signed("uint8", "Uint8", <<Zero64, Word(255)>>)
    \o Signed("uint16", "Uint16", <<Zero64, Word(65535)>>)
    \o Signed("uint32", "Uint32", <<Zero64, Word(1), MaxInt32, Inc64(MaxInt32),
                                    <<0, 0, Limb - 1, Limb - 1>> >>)
    \o Signed("uint", "Uint", <<Zero64, Word(1), MaxInt32, Inc64(MaxInt32),
                                <<0, 1, 0, 0>>, MaxInt64, MinInt64, Max64>>)
    \o Signed("uint64", "Uint64", <<Zero64, Word(1), MaxInt32, <<0, 1, 0, 0>>,
                                    MaxInt64, MinInt64, Max64>>)

\* msFromTime(time.Time{}) and the milliseconds of a day in 2017
ZeroTimeMs == <<65535, 51068, 60883, 10240>>
SomeTimeMs == <<0, 349, 16119, 38912>>

SomeObjectId == <<1, 2, 3, 4, 5, 6, 7, 8, 9, 10, 11, 12>>

NilScope == Map("map[string]interface {}", "String", TRUE, <<>>, <<>>)

\* n elements, nil ones and ints in turn
Elems(n) ==
    [k \in 1..n |-> IF k % 2 = 1 THEN Interface(TRUE, Invalid)
                    ELSE Interface(FALSE, Integer("int", "Int", Word(k)))]

\* mongo.M, mongo.D and mongo.A of n entries
M(n) == Map("mongo.M", "String", FALSE, SubSeq(itoas, 1, n), Elems(n))
DocOf(n) == D(FALSE, [k \in 1..n |-> DocItem(itoas[k], Elems(n)[k])])
A(n) == Slice("mongo.A", "Interface", FALSE, Elems(n))

\* type S struct { X int }
TypeS == <<Field("X", "", FALSE, "Int", <<>>, <<>>)>>

\* Values of the other types Encode documents, zero and not zero.
OtherValues ==
    << Bool(FALSE), Bool(TRUE),
       Float64(Zero64), Float64(<<16368, 0, 0, 0>>),
       String("string", ""), String("string", "a"),
       String("mongo.Code", ""), String("mongo.Code", "a"),
       String("mongo.Symbol", ""), String("mongo.Symbol", "a"),
       Integer("mongo.Timestamp", "Int64", Zero64),
       Integer("mongo.Timestamp", "Int64", Word(1)),
       Time(TRUE, ZeroTimeMs), Time(FALSE, SomeTimeMs),
       Regexp("", ""), Regexp("a", ""), Regexp("", "i"), Regexp("a", "i"),
       CodeWithScope("", NilScope), CodeWithScope("a", NilScope),
       CodeWithScope("", M(0)), CodeWithScope("a", M(MaxItems)),
       Integer("mongo.MinMax", "Int", Zero64),
       Integer("mongo.MinMax", "Int", Word(1)),
       Integer("mongo.MinMax", "Int", Neg64(Word(1))),
       Integer("mongo.MinMax", "Int", Word(2)),
       ObjectId(<<>>), ObjectId(SomeObjectId), ObjectId(<<1, 2, 3>>),
       BSONData(0, <<>>), BSONData(kindInt32, <<7, 0, 0, 0>>),
       BSONData(kindDocument, <<5, 0, 0, 0, 0>>),
       Struct(TypeS, <<Integer("int", "Int", Zero64)>>),
       Struct(TypeS, <<Integer("int", "Int", Word(1))>>),
       Ptr("*int", TRUE, Invalid),
       Ptr("*int", FALSE, Integer("int", "Int", Zero64)),
       Ptr("*int", FALSE, Integer("int", "Int", Word(1))),
       Interface(TRUE, Invalid),
       Interface(FALSE, Integer("int", "Int", Zero64)),
       Interface(FALSE, String("string", "a")),
       Map("mongo.M", "String", TRUE, <<>>, <<>>), M(0), M(MaxItems),
       Map("map[int]string", "Int", TRUE, <<>>, <<>>),
       Map("map[int]string", "Int", FALSE, <<1>>, <<String("string", "a")>>),
       D(TRUE, <<>>), DocOf(0), DocOf(MaxItems),
       Slice("mongo.A", "Interface", TRUE, <<>>), A(0), A(MaxItems),
       Slice("[]uint8", "Uint8", TRUE, <<>>),
       Slice("[]uint8", "Uint8", FALSE, <<>>),
       Slice("[]uint8", "Uint8", FALSE,
             <<Integer("uint8", "Uint8", Word(1))>>),
       Array("[1]int", <<Integer("int", "Int", Word(1))>>),
       Other("chan int", "Chan"), Other("complex128", "Complex128"),
       Other("func()", "Func") >>

FieldValues == SignedValues \o UnsignedValues \o OtherValues

\* struct { X T } and struct { X T `bson:",omitempty"` } holding x
Plain(x) == Struct(<<Field("X", "", FALSE, x.K, <<>>, <<>>)>>, <<x>>)
OmitEmpty(x) ==
    Struct(<<Field("X", "", FALSE, x.K, <<>>, <<",", "omitempty">>)>>, <<x>>)

\* The values that are not a record with one field: nil, documents of the
\* three kinds, a map with _id that MapKeys delivers last, pointers,
\* values that are no document, and records whose tags compileStructSpec
\* refuses (an unknown flag, and `bson:"new/c"` of FindAndModifyOptions).
TopValues ==
    << Invalid,
       Map("mongo.M", "String", TRUE, <<>>, <<>>), M(0), M(MaxItems),
       Map("mongo.M", "String", FALSE, <<"a", "_id">>,
           <<Interface(FALSE, Integer("int", "Int", Word(1))),
             Interface(FALSE, Integer("int", "Int", Word(2)))>>),
       Map("map[int]string", "Int", TRUE, <<>>, <<>>),
       Map("map[int]string", "Int", FALSE, <<1>>, <<String("string", "a")>>),
       D(TRUE, <<>>), DocOf(0), DocOf(MaxItems),
       D(FALSE, <<DocItem("a", Interface(FALSE, A(MaxItems))),
                  DocItem("b", Interface(FALSE, Other("chan int", "Chan")))>>),
       BSONData(kindDocument, <<5, 0, 0, 0, 0>>),
       BSONData(kindInt32, <<7, 0, 0, 0>>),
       Ptr("*struct", FALSE, Plain(Integer("int", "Int", Word(1)))),
       Ptr("*struct", TRUE, Invalid),
       Integer("int", "Int", Word(1)), String("string", "a"), A(MaxItems),
       Other("chan int", "Chan"),
       Struct(<<Field("X", "", FALSE, "Int", <<>>, <<",", "minsize">>)>>,
              <<Integer("int", "Int", Word(1))>>),
       Struct(<<Field("New", "", FALSE, "Bool", <<>>, <<"new/c">>)>>,
              <<Bool(TRUE)>>),
       Struct(<<Field("X", "", FALSE, "Int", <<>>, <<",", "omitempty">>),
                Field("Y", "", FALSE, "Uint64", <<>>, <<>>),
                Field("New", "", FALSE, "Int", <<>>, <<>>)>>,
              <<Integer("int", "Int", Word(1)),
                Integer("uint64", "Uint64", Max64),
                Integer("int", "Int", Word(2))>>) >>

Inputs ==
    [k \in DOMAIN FieldValues |-> Plain(FieldValues[k])]
    \o [k \in DOMAIN FieldValues |-> OmitEmpty(FieldValues[k])]
    \o TopValues

\* The slices the caller hands in.
Buffers == <<NilSlice, Bytes(<<>>), Bytes(<<1, 2, 3>>)>>

\* The values encoded next to v.
Others ==
    << M(0), M(1), M(MaxItems), DocOf(0), DocOf(1),
       Plain(A(0)), Plain(A(1)),
       Plain(ObjectId(<<>>)), Plain(ObjectId(SomeObjectId)),
       Plain(Slice("[]uint8", "Uint8", TRUE, <<>>)),
       Plain(Slice("[]uint8", "Uint8", FALSE, <<>>)) >>

NoRecord ==
    /\ t = <<>>
    /\ v = <<>>
    /\ structSpecCache = <<>>
    /\ result = NoResult

(***************************************************************************)
(* structSpecForType, called by several goroutines.                        *)
(***************************************************************************)
NumGoroutines == 3
MaxLookups == 4

Goroutines == 1..NumGoroutines
NoWriter == 0
NoSpec == [found |-> FALSE]

\* The types asked for: one that compiles, and one whose tag stops
\* compileStructSpec with a panic (deprecated.go: `bson:"new/c"`).
CacheTypes ==
    << <<Field("X", "", FALSE, "Int", <<>>, <<>>)>>,
       <<Field("New", "", FALSE, "Int", <<>>, <<"new/c">>)>> >>

NoLookup ==
    /\ structSpecMutex = [writer |-> NoWriter, readers |-> {}]
    /\ cpc = [g \in Goroutines |-> "idle"]
    /\ carg = [g \in Goroutines |-> <<>>]
    /\ cret = [g \in Goroutines |-> NoSpec]
    /\ specAddr = <<>>
    /\ allocs = 0
    /\ inserts = <<>>
    /\ lookups = 0

\* A goroutine calls structSpecForType(typ).
Lookup(g) ==
    /\ cpc[g] = "idle"
    /\ lookups < MaxLookups
    /\ lookups' = lookups + 1
    /\ \E k \in DOMAIN CacheTypes : carg' = [carg EXCEPT ![g] = CacheTypes[k]]
    /\ cpc' = [cpc EXCEPT ![g] = "rlock"]
    /\ cret' = [cret EXCEPT ![g] = NoSpec]
    /\ UNCHANGED <<structSpecMutex, specAddr, allocs, inserts, structSpecCache>>
    /\ UNCHANGED <<t, v, result, poolVars, oidVars, encVars, connVars>>

\* structSpecMutex.RLock()
RLock(g) ==
    /\ cpc[g] = "rlock"
    /\ structSpecMutex.writer = NoWriter
    /\ structSpecMutex' = [structSpecMutex EXCEPT !.readers = @ \cup {g}]
    /\ cpc' = [cpc EXCEPT ![g] = "read"]
    /\ UNCHANGED <<carg, cret, specAddr, allocs, inserts, lookups, structSpecCache>>
    /\ UNCHANGED <<t, v, result, poolVars, oidVars, encVars, connVars>>

\* ss, found := structSpecCache[t]
ReadCache(g) ==
    /\ cpc[g] = "read"
    /\ cret' = [cret EXCEPT ![g] =
                  IF carg[g] \in DOMAIN structSpecCache
                  THEN [found |-> TRUE, addr |-> specAddr[carg[g]],
                        ss |-> structSpecCache[carg[g]]]
                  ELSE NoSpec]
    /\ cpc' = [cpc EXCEPT ![g] = "runlock"]
    /\ UNCHANGED <<structSpecMutex, carg, specAddr, allocs, inserts, lookups,
                   structSpecCache>>
    /\ UNCHANGED <<t, v, result, poolVars, oidVars, encVars, connVars>>

\* structSpecMutex.RUnlock(); if found { return ss }
RUnlock(g) ==
    /\ cpc[g] = "runlock"
    /\ structSpecMutex' = [structSpecMutex EXCEPT !.readers = @ \ {g}]
    /\ cpc' = [cpc EXCEPT ![g] = IF cret[g].found THEN "idle" ELSE "lock"]
    /\ UNCHANGED <<carg, cret, specAddr, allocs, inserts, lookups, structSpecCache>>
    /\ UNCHANGED <<t, v, result, poolVars, oidVars, encVars, connVars>>

\* structSpecMutex.Lock(); defer structSpecMutex.Unlock()
Lock(g) ==
    /\ cpc[g] = "lock"
    /\ structSpecMutex.writer = NoWriter
    /\ structSpecMutex.readers = {}
    /\ structSpecMutex' = [structSpecMutex EXCEPT !.writer = g]
    /\ cpc' = [cpc EXCEPT ![g] = "recheck"]
    /\ UNCHANGED <<carg, cret, specAddr, allocs, inserts, lookups, structSpecCache>>
    /\ UNCHANGED <<t, v, result, poolVars, oidVars, encVars, connVars>>

\* Mutant: the cache is not looked at again under the exclusive lock.
RecheckSkipped(g) ==
    /\ cpc[g] = "recheck"
    /\ cpc' = [cpc EXCEPT ![g] = "compile"]
    /\ UNCHANGED <<structSpecMutex, carg, cret, specAddr, allocs, inserts,
                   lookups, structSpecCache>>
    /\ UNCHANGED <<t, v, result, poolVars, oidVars, encVars, connVars>>

\* ss, found = structSpecCache[t]; if found { return ss }
Recheck(g) ==
    /\ cpc[g] = "recheck"
    /\ IF carg[g] \in DOMAIN structSpecCache
       THEN /\ cret' = [cret EXCEPT ![g] =
                          [found |-> TRUE, addr |-> specAddr[carg[g]],
                           ss |-> structSpecCache[carg[g]]]]
            /\ cpc' = [cpc EXCEPT ![g] = "unlock"]
       ELSE /\ cpc' = [cpc EXCEPT ![g] = "compile"]
            /\ UNCHANGED cret
    /\ UNCHANGED <<structSpecMutex, carg, specAddr, allocs, inserts, lookups,
                   structSpecCache>>
    /\ UNCHANGED <<t, v, result, poolVars, oidVars, encVars, connVars>>

\* ss = &structSpec{...}; compileStructSpec(...); structSpecCache[t] = ss
Compile(g) ==
    LET ss == newStructSpec(carg[g]) IN
    /\ cpc[g] = "compile"
    /\ IF ss.panic
       THEN /\ cret' = [cret EXCEPT ![g] = [found |-> FALSE, panic |-> TRUE]]
            /\ UNCHANGED <<structSpecCache, specAddr, allocs, inserts>>
       ELSE /\ allocs' = allocs + 1
            /\ structSpecCache' = MapPut(structSpecCache, carg[g], ss)
            /\ specAddr' = MapPut(specAddr, carg[g], allocs + 1)
            /\ inserts' = MapPut(inserts, carg[g],
                              IF carg[g] \in DOMAIN inserts
                              THEN inserts[carg[g]] + 1 ELSE 1)
            /\ cret' = [cret EXCEPT ![g] =
                          [found |-> TRUE, addr |-> allocs + 1, ss |-> ss]]
    /\ cpc' = [cpc EXCEPT ![g] = "unlock"]
    /\ UNCHANGED <<structSpecMutex, carg, lookups>>
    /\ UNCHANGED <<t, v, result, poolVars, oidVars, encVars, connVars>>

\* The deferred structSpecMutex.Unlock(), and the return or the panic.
Unlock(g) ==
    /\ cpc[g] = "unlock"
    /\ structSpecMutex' = [structSpecMutex EXCEPT !.writer = NoWriter]
    /\ cpc' = [cpc EXCEPT ![g] = "idle"]
    /\ UNCHANGED <<carg, cret, specAddr, allocs, inserts, lookups, structSpecCache>>
    /\ UNCHANGED <<t, v, result, poolVars, oidVars, encVars, connVars>>

NextCache ==
    \E g \in Goroutines :
        \/ Lookup(g)
        \/ RLock(g)
        \/ ReadCache(g)
        \/ RUnlock(g)
        \/ Lock(g)
        \/ Recheck(g)
        \/ Compile(g)
        \/ Unlock(g)

(***************************************************************************)
(* NewObjectId and nextOidCounter.                                         *)
(***************************************************************************)
MaxOidCalls == 3
MaxClock == 1

\* Values rand.Reader may deliver: any eight bytes; the ends of the range
\* and their neighbours.
RandomValues ==
    {Zero64, <<0, 0, 0, 1>>, <<Limb - 1, Limb - 1, Limb - 1, Limb - 2>>, Max64}

NoOid == <<>>

\* newObjectId(t, c): four bytes of the second, eight bytes of the counter
newObjectId(u, c) ==
    <<(u \div 16777216) % 256, (u \div 65536) % 256, (u \div 256) % 256,
      u % 256>> \o Bytes64(c)

NoOidCalls ==
    /\ oidLock = 0
    /\ oidCounter = Zero64
    /\ opc = [g \in Goroutines |-> "idle"]
    /\ otime = [g \in Goroutines |-> 0]
    /\ oid = [g \in Goroutines |-> NoOid]
    /\ clock = 0
    /\ randReads = 0
    /\ returned = <<>>
    /\ issued = <<>>

\* NewObjectId(): time.Now() is evaluated before nextOidCounter() is called
OidCall(g) ==
    /\ opc[g] = "idle"
    /\ Len(returned) + Cardinality({h \in Goroutines : opc[h] # "idle"})
          < MaxOidCalls
    /\ otime' = [otime EXCEPT ![g] = clock]
    /\ opc' = [opc EXCEPT ![g] = "lock"]
    /\ UNCHANGED <<oidLock, oidCounter, oid, clock, randReads, returned, issued>>
    /\ UNCHANGED <<poolVars, specVars, cacheVars, encVars, connVars>>

\* oidLock.Lock()
OidLock(g) ==
    /\ opc[g] = "lock"
    /\ oidLock = 0
    /\ oidLock' = g
    /\ opc' = [opc EXCEPT ![g] = "next"]
    /\ UNCHANGED <<oidCounter, otime, oid, clock, randReads, returned, issued>>
    /\ UNCHANGED <<poolVars, specVars, cacheVars, encVars, connVars>>

\* if oidCounter == 0 { binary.Read(rand.Reader, ...) }; oidCounter += 1
OidNext(g) ==
    /\ opc[g] = "next"
    /\ \E r \in RandomValues :
         LET c == IF oidCounter = Zero64 THEN r ELSE oidCounter IN
         /\ randReads' = IF oidCounter = Zero64 THEN randReads + 1 ELSE randReads
         /\ oidCounter' = Inc64(c)
         /\ returned' = Append(returned, Inc64(c))
         /\ issued' = Append(issued, newObjectId(otime[g], Inc64(c)))
         /\ oid' = [oid EXCEPT ![g] = newObjectId(otime[g], Inc64(c))]
    /\ opc' = [opc EXCEPT ![g] = "unlock"]
    /\ UNCHANGED <<oidLock, otime, clock>>
    /\ UNCHANGED <<poolVars, specVars, cacheVars, encVars, connVars>>

\* the deferred oidLock.Unlock(); NewObjectId returns the identifier
OidUnlock(g) ==
    /\ opc[g] = "unlock"
    /\ oidLock' = 0
    /\ opc' = [opc EXCEPT ![g] = "idle"]
    /\ UNCHANGED <<oidCounter, otime, oid, clock, randReads, returned, issued>>
    /\ UNCHANGED <<poolVars, specVars, cacheVars, encVars, connVars>>

\* a second passes
Tick ==
    /\ clock < MaxClock
    /\ clock' = clock + 1
    /\ UNCHANGED <<oidLock, oidCounter, opc, otime, oid, randReads, returned,
                   issued>>
    /\ UNCHANGED <<poolVars, specVars, cacheVars, encVars, connVars>>

NextOid ==
    \/ \E g \in Goroutines :
          \/ OidCall(g)
          \/ OidLock(g)
          \/ OidNext(g)
          \/ OidUnlock(g)
    \/ Tick

(***************************************************************************)
(* The cursor of the wire connection.  connection.go is not among the      *)
(* sources; the cursor follows the description of the driver: a server     *)
(* cursor id (0 = exhausted), a buffered batch, a read position.           *)
(***************************************************************************)
MaxBatch == 2
MaxRequests == 3
MaxCalls == 4

\* No cursor yet: Find has not been called.
NoCursor ==
    [cursorId |-> 0, batch |-> 0, pos |-> 0, state |-> "none", closes |-> 0]

NoReturn == [n |-> 0, call |-> "none", value |-> FALSE, err |-> "nil"]

\* What the server, or the transport, answers to a request: a failure of
\* the transport, or a reply with n documents and a cursor id.
Replies ==
    {[fail |-> TRUE, n |-> 0, cursorId |-> 0]}
        \cup {[fail |-> FALSE, n |-> n, cursorId |-> id] :
                 n \in 0..MaxBatch, id \in 0..1}

\* A request the cursor hands to its connection, and whether it went well.
Request(op, ok) == [op |-> op, ok |-> ok]

\* Mutant: a cursor whose first batch was empty is taken for exhausted.
fillIfBuffered(cur, reply) ==
    IF cur.pos < cur.batch \/ cur.cursorId = 0 \/ cur.batch = 0
    THEN [cursor |-> cur, sent |-> <<>>, zero |-> FALSE]
    ELSE IF reply.fail
         THEN [cursor |-> cur, sent |-> <<Request("GetMore", FALSE)>>,
               zero |-> FALSE]
         ELSE [cursor |-> [cur EXCEPT !.batch = @ + reply.n,
                                      !.cursorId = reply.cursorId],
               sent |-> <<Request("GetMore", TRUE)>>,
               zero |-> reply.cursorId = 0]

\* The step has_next and next share: when the batch is drained and the
\* cursor id is not 0, one GetMore; the new batch is appended and the
\* cursor id replaced by the one of the reply.
fill(cur, reply) ==
    IF cur.pos < cur.batch \/ cur.cursorId = 0
    THEN [cursor |-> cur, sent |-> <<>>, zero |-> FALSE]
    ELSE IF reply.fail
         THEN [cursor |-> cur, sent |-> <<Request("GetMore", FALSE)>>,
               zero |-> FALSE]
         ELSE [cursor |-> [cur EXCEPT !.batch = @ + reply.n,
                                      !.cursorId = reply.cursorId],
               sent |-> <<Request("GetMore", TRUE)>>,
               zero |-> reply.cursorId = 0]

\* Mutant: Close looks at the cursor id only, not at whether it has run.
closeByIdOnly(cur, ok) ==
    IF cur.cursorId # 0
    THEN [cursor |-> [cur EXCEPT !.state = "closed", !.closes = @ + 1],
          sent |-> <<Request("KillCursors", ok)>>, err |-> "nil"]
    ELSE [cursor |-> [cur EXCEPT !.state = "closed", !.closes = @ + 1],
          sent |-> <<>>, err |-> "nil"]

\* close: a KillCursors when the cursor id is still not 0, its outcome
\* dropped; a closed cursor stays closed.
close(cur, ok) ==
    IF cur.state = "open" /\ cur.cursorId # 0
    THEN [cursor |-> [cur EXCEPT !.state = "closed", !.closes = @ + 1],
          sent |-> <<Request("KillCursors", ok)>>, err |-> "nil"]
    ELSE [cursor |-> [cur EXCEPT !.state = "closed", !.closes = @ + 1],
          sent |-> <<>>, err |-> "nil"]

\* A request fails on a connection that has broken before.
Failures(sent) == \E k \in DOMAIN sent : ~sent[k].ok

\* find: the cursor is seeded with the first batch and the cursor id of
\* the reply.
Find ==
    /\ cursor.state = "none"
    /\ \E reply \in Replies :
          /\ ~reply.fail
          /\ cursor' = [cursorId |-> reply.cursorId, batch |-> reply.n,
                        pos |-> 0, state |-> "open", closes |-> 0]
          /\ zeroSeen' = (reply.cursorId = 0)
    /\ requests' = <<Request("Query", TRUE)>>
    /\ UNCHANGED <<broken, ret>>
    /\ UNCHANGED <<poolVars, specVars, cacheVars, oidVars, encVars, dbVars,
                   logVars>>

\* A call may fetch: the cursor has requests left, or needs none.
MayFill ==
    \/ Len(requests) < MaxRequests
    \/ cursor.pos < cursor.batch
    \/ cursor.cursorId = 0

\* has_next()
HasNext ==
    /\ cursor.state = "open"
    /\ ret.n < MaxCalls
    /\ MayFill
    /\ \E reply \in Replies :
          /\ broken => reply.fail
          /\ \E f \in {fill(cursor, reply)} :
                /\ cursor' = f.cursor
                /\ requests' = requests \o f.sent
                /\ broken' = (broken \/ Failures(f.sent))
                /\ zeroSeen' = (zeroSeen \/ f.zero)
                /\ ret' = [n |-> ret.n + 1, call |-> "HasNext",
                           value |-> f.cursor.pos < f.cursor.batch,
                           err |-> "nil"]
    /\ UNCHANGED <<poolVars, specVars, cacheVars, oidVars, encVars, dbVars,
                   logVars>>

\* next(target): the document at the position, or Done when there is none
\* after the fetch, or the error of the transport.
CursorNext ==
    /\ cursor.state = "open"
    /\ ret.n < MaxCalls
    /\ MayFill
    /\ \E reply \in Replies :
          /\ broken => reply.fail
          /\ \E f \in {fill(cursor, reply)} :
                /\ requests' = requests \o f.sent
                /\ broken' = (broken \/ Failures(f.sent))
                /\ zeroSeen' = (zeroSeen \/ f.zero)
                /\ IF f.cursor.pos < f.cursor.batch
                   THEN /\ cursor' = [f.cursor EXCEPT !.pos = @ + 1]
                        /\ ret' = [n |-> ret.n + 1, call |-> "Next",
                                   value |-> TRUE, err |-> "nil"]
                   ELSE /\ cursor' = f.cursor
                        /\ ret' = [n |-> ret.n + 1, call |-> "Next",
                                   value |-> FALSE,
                                   err |-> IF Failures(f.sent)
                                           THEN "transport" ELSE "Done"]
    /\ UNCHANGED <<poolVars, specVars, cacheVars, oidVars, encVars, dbVars,
                   logVars>>

\* close()
CursorClose ==
    /\ cursor.state \in {"open", "closed"}
    /\ ret.n < MaxCalls
    /\ \E ok \in BOOLEAN :
          /\ broken => ~ok
          /\ \E c \in {close(cursor, ok)} :
                /\ cursor' = c.cursor
                /\ requests' = requests \o c.sent
                /\ broken' = (broken \/ Failures(c.sent))
                /\ ret' = [n |-> ret.n + 1, call |-> "Close",
                           value |-> FALSE, err |-> c.err]
    /\ UNCHANGED zeroSeen
    /\ UNCHANGED <<poolVars, specVars, cacheVars, oidVars, encVars, dbVars,
                   logVars>>

NoCursorCalls ==
    /\ cursor = NoCursor
    /\ requests = <<>>
    /\ broken = FALSE
    /\ zeroSeen = FALSE
    /\ ret = NoReturn

NextCursor == Find \/ HasNext \/ CursorNext \/ CursorClose

(***************************************************************************)
(* Commands: Database.Run, Database.LastError and SafeConn.  The           *)
(* connection, its cursor and the decoder are what the code calls; their   *)
(* outcomes are drawn from the sets below.                                 *)
(***************************************************************************)
TransportError == [kind |-> "transport"]
DecodeError == [kind |-> "decode"]
Done == [kind |-> "Done"]

\* What Conn.Find, Conn.Insert, Conn.Update and Conn.Remove return.
ConnErrors == <<NoError, TransportError, EncodeTypeError("chan int")>>

Element(name, value) == [name |-> name, value |-> value]

\* The documents a server sends in reply to a command.
ReplyDocs ==
    << <<Element("ok", 1)>>,
       <<Element("ok", 0), Element("errmsg", "no such cmd")>>,
       <<Element("ok", 0), Element("errmsg", "")>>,
       <<Element("ok", 0)>>,
       <<>>,
       <<Element("err", ""), Element("n", 0), Element("ok", 1)>>,
       <<Element("err", "E11000 duplicate key"), Element("code", 11000),
         Element("n", 0), Element("ok", 1)>>,
       <<Element("err", "timeout"), Element("n", 0), Element("ok", 1)>>,
       <<Element("err", "E11000 duplicate key"), Element("code", 11000),
         Element("ok", 0), Element("errmsg", "not master")>> >>

\* What happens to one command: the error of Find, the document of the
\* reply (0: the reply holds none), and whether the decoder fails in
\* cursor.Next, in Decode(d.Data, &r) and in d.Decode(result).
CommandEnvs ==
    [find : DOMAIN ConnErrors, doc : 0..Len(ReplyDocs),
     next : BOOLEAN, decode : BOOLEAN, result : BOOLEAN]

\* The namespaces handed to SafeConn, one token per name and separator.
Namespaces ==
    << <<"db", ".", "c">>, <<"db">>, <<"db", ".", "c", ".", "x">>,
       <<".", "c">> >>

Commands == <<"nil", "getLastError", "getLastError w=2">>
DefaultLastErrorCmd == "getLastError"

\* strings.Index(s, "."), counted in tokens; -1 when there is none
IndexOfDot(s) ==
    IF \E k \in DOMAIN s : s[k] = "."
    THEN (CHOOSE k \in DOMAIN s : s[k] = "." /\ \A j \in 1..(k - 1) : s[j] # ".")
             - 1
    ELSE -1

\* SplitNamespace(s)
SplitNamespace(s) ==
    LET i == IndexOfDot(s) IN
    IF i > 0 THEN <<SubSeq(s, 1, i), SubSeq(s, i + 2, Len(s))>>
    ELSE <<s, <<>>>>

\* The decoder: the element of the document with the name of the field, or
\* the zero value of the field when the document has no such element.
ElementOf(doc, name, zero) ==
    IF \E k \in DOMAIN doc : doc[k].name = name
    THEN doc[CHOOSE k \in DOMAIN doc : doc[k].name = name].value
    ELSE zero

\* CommandResponse and MongoError, decoded from a document
CommandResponse(doc) ==
    [Ok |-> ElementOf(doc, "ok", 0) # 0, Errmsg |-> ElementOf(doc, "errmsg", "")]

MongoError(doc) ==
    [kind |-> "MongoError", Err |-> ElementOf(doc, "err", ""),
     N |-> ElementOf(doc, "n", 0), Code |-> ElementOf(doc, "code", 0)]

\* Mutant: a response without a message is taken for a success.
CommandResponseErrNoMessage(s) ==
    IF s.Ok \/ s.Errmsg = "" THEN NoError ELSE errorsNew(s.Errmsg)

\* CommandResponse.Err()
CommandResponseErr(s) ==
    IF s.Ok THEN NoError
    ELSE errorsNew(IF s.Errmsg = "" THEN "unspecified error" ELSE s.Errmsg)

\* The call of a method of the connection.
ConnCall(conn, op, namespace, arg) ==
    [conn |-> conn, op |-> op, namespace |-> namespace, arg |-> arg]

\* The document of the reply, <<>> when it holds none.
DocOfEnv(env) == IF env.doc = 0 THEN <<>> ELSE ReplyDocs[env.doc]

\* runInternal(conn, dbname, cmd, options, result): Find, the deferred
\* cursor.Close(), cursor.Next(result).
runInternal(conn, dbname, cmd, env) ==
    IF ConnErrors[env.find].kind # "nil"
    THEN [err |-> ConnErrors[env.find],
          wire |-> <<ConnCall(conn, "Find", dbname \o <<".", "$cmd">>, cmd)>>,
          closes |-> 0, read |-> FALSE]
    ELSE [err |-> IF env.doc = 0 THEN Done
                  ELSE IF env.next THEN DecodeError ELSE NoError,
          wire |-> <<ConnCall(conn, "Find", dbname \o <<".", "$cmd">>, cmd)>>,
          closes |-> 1,
          read |-> env.doc # 0 /\ ~env.next]

\* What a call of Run leaves to look at.
RunResult(err, written, r) ==
    [err |-> err, written |-> written, wire |-> r.wire, closes |-> r.closes]

\* Database.Run(cmd, result)
Run(db, cmd, resultIsNil, env) ==
    LET r == runInternal(db.Conn, db.Name, cmd, env) IN
    IF r.err.kind # "nil" THEN RunResult(r.err, "no", r)
    ELSE IF env.decode THEN RunResult(DecodeError, "no", r)
    ELSE IF CommandResponseErr(CommandResponse(DocOfEnv(env))).kind # "nil"
    THEN RunResult(CommandResponseErr(CommandResponse(DocOfEnv(env))),
                   "no", r)
    ELSE IF ~resultIsNil
    THEN IF env.result THEN RunResult(DecodeError, "partly", r)
         ELSE RunResult(NoError, "yes", r)
    ELSE RunResult(NoError, "no", r)

\* Mutant: the err field of the reply is not looked at.
LastErrorEnvelopeOnly(db, cmd, env) ==
    LET r == runInternal(db.Conn, db.Name,
                         IF cmd = "nil" THEN DefaultLastErrorCmd ELSE cmd, env)
        doc == IF r.read THEN DocOfEnv(env) ELSE <<>>
    IN  [me |-> MongoError(doc),
         err |-> IF r.err.kind # "nil" THEN r.err
                 ELSE CommandResponseErr(CommandResponse(doc)),
         wire |-> r.wire, closes |-> r.closes]

\* Database.LastError(cmd)
LastError(db, cmd, env) ==
    LET r == runInternal(db.Conn, db.Name,
                         IF cmd = "nil" THEN DefaultLastErrorCmd ELSE cmd, env)
        doc == IF r.read THEN DocOfEnv(env) ELSE <<>>
    IN  [me |-> MongoError(doc),
         err |-> IF r.err.kind # "nil" THEN r.err
                 ELSE IF CommandResponseErr(CommandResponse(doc)).kind # "nil"
                 THEN CommandResponseErr(CommandResponse(doc))
                 ELSE IF MongoError(doc).Err # "" THEN MongoError(doc)
                 ELSE NoError,
         wire |-> r.wire, closes |-> r.closes]

\* Mutant: the last error is asked for after a write that failed, too.
checkErrorAlways(c, namespace, err, env) ==
    [err |-> IF err.kind # "nil" THEN err
             ELSE LastError([Conn |-> c.Conn,
                             Name |-> SplitNamespace(namespace)[1]],
                            c.Cmd, env).err,
     wire |-> LastError([Conn |-> c.Conn,
                         Name |-> SplitNamespace(namespace)[1]],
                        c.Cmd, env).wire]

\* SafeConn.checkError(namespace, err)
checkError(c, namespace, err, env) ==
    IF err.kind # "nil" THEN [err |-> err, wire |-> <<>>]
    ELSE [err |-> LastError([Conn |-> c.Conn,
                             Name |-> SplitNamespace(namespace)[1]],
                            c.Cmd, env).err,
          wire |-> LastError([Conn |-> c.Conn,
                              Name |-> SplitNamespace(namespace)[1]],
                             c.Cmd, env).wire]

\* SafeConn.Insert, Update and Remove: the write on the wrapped connection,
\* then checkError with its error.
SafeWrite(c, op, namespace, write, env) ==
    [err |-> checkError(c, namespace, ConnErrors[write], env).err,
     wire |-> <<ConnCall(c.Conn, op, namespace, "documents")>>
                  \o checkError(c, namespace, ConnErrors[write], env).wire]

NoCall == [op |-> "none"]

\* db.Run(cmd, result), for a database on one of two connections
CallRun ==
    /\ dbIn.op = "none"
    /\ \E conn \in 1..2, k \in DOMAIN Commands, resultIsNil \in BOOLEAN,
          env \in CommandEnvs :
        /\ dbIn' = [op |-> "Run", conn |-> conn, cmd |-> Commands[k],
                    resultIsNil |-> resultIsNil, env |-> env]
        /\ dbOut' = Run([Conn |-> conn, Name |-> <<"db">>], Commands[k],
                        resultIsNil, env)
        /\ UNCHANGED <<poolVars, specVars, cacheVars, oidVars, encVars,
                       cursorVars, logVars>>

\* db.LastError(cmd)
CallLastError ==
    /\ dbIn.op = "none"
    /\ \E conn \in 1..2, k \in DOMAIN Commands, env \in CommandEnvs :
        /\ dbIn' = [op |-> "LastError", conn |-> conn, cmd |-> Commands[k],
                    env |-> env]
        /\ dbOut' = LastError([Conn |-> conn, Name |-> <<"db">>],
                              Commands[k], env)
        /\ UNCHANGED <<poolVars, specVars, cacheVars, oidVars, encVars,
                       cursorVars, logVars>>

\* SafeConn{conn, cmd}.Insert / Update / Remove
Safe(op) ==
    /\ dbIn.op = "none"
    /\ \E conn \in 1..2, k \in DOMAIN Commands, n \in DOMAIN Namespaces,
          write \in DOMAIN ConnErrors, env \in CommandEnvs :
        /\ dbIn' = [op |-> op, conn |-> conn, cmd |-> Commands[k],
                    namespace |-> Namespaces[n], write |-> write,
                    env |-> env]
        /\ dbOut' = SafeWrite([Conn |-> conn, Cmd |-> Commands[k]], op,
                              Namespaces[n], write, env)
        /\ UNCHANGED <<poolVars, specVars, cacheVars, oidVars, encVars,
                       cursorVars, logVars>>

SafeInsert == Safe("Insert")
SafeUpdate == Safe("Update")
SafeRemove == Safe("Remove")

NoCommands == dbIn = NoCall /\ dbOut = NoCall

NextDatabase ==
    CallRun \/ CallLastError \/ SafeInsert \/ SafeUpdate \/ SafeRemove

(***************************************************************************)
(* The logging wrapper of a connection (loggingConn with a logger and a    *)
(* prefix).  The wrapped connection is what the wrapper calls; what it     *)
(* returns is drawn from the sets below.                                   *)
(***************************************************************************)
MaxLogCalls == 3

\* The prefixes handed to NewLoggingConn.
Prefixes == <<"", "mongo">>

\* The options of a call: none, or options with a flag set.
OptionValues == <<"nil", "flags">>

\* A nil Cursor; a logCursor around the cursor r.
NilCursor == [Cursor |-> 0, prefix |-> <<>>]
logCursor(r, prefix) == [Cursor |-> r, prefix |-> prefix]

\* What the wrapped Find returns: a cursor and no error, or no cursor and
\* an error.
FindReturns ==
    << [cursor |-> 1, err |-> 1], [cursor |-> 0, err |-> 2],
       [cursor |-> 0, err |-> 3] >>

\* NewLoggingConn(conn, log, prefix)
NewLoggingConn(conn, prefix) ==
    [Conn |-> conn,
     prefix |-> IF prefix # "" THEN <<prefix, ".">> ELSE <<>>,
     cursorId |-> 0]

\* What a call of the wrapper leaves to look at: the error and the cursor
\* the wrapped connection returned, and what the wrapper did with them.
LogCall(op, wrappedErr, wrappedCursor, panic, err, cur) ==
    [op |-> op, wrappedErr |-> wrappedErr, wrappedCursor |-> wrappedCursor,
     panic |-> panic, err |-> err, cursor |-> cur]

NoLogCall == LogCall("none", NoError, 0, FALSE, NoError, NilCursor)

\* c.log.Printf(...): one more line, with the prefix it starts with and,
\* for Find, the prefix of the cursor without its last byte.
Printf(prefix, op, suffix, rest) ==
    [lines |-> logged.lines + 1,
     last |-> prefix \o <<op>> \o suffix \o rest]

\* The text the options add to the line.
OptionText(options) == IF options = "nil" THEN <<>> ELSE <<", flags">>

\* Close, Update, Insert and Remove of loggingConn: the call of the wrapped
\* connection, the line for the logger, return err.
LoggedWrite(op) ==
    /\ lcalls < MaxLogCalls
    /\ ~lcall.panic
    /\ \E e \in DOMAIN ConnErrors, k \in DOMAIN OptionValues :
          /\ op = "Close" => k = 1
          /\ lcall' = LogCall(op, ConnErrors[e], 0, FALSE, ConnErrors[e],
                              NilCursor)
          /\ logged' = Printf(lc.prefix, op, OptionText(OptionValues[k]),
                              <<ConnErrors[e].kind>>)
    /\ lcalls' = lcalls + 1
    /\ UNCHANGED lc
    /\ UNCHANGED <<poolVars, specVars, cacheVars, oidVars, encVars,
                   cursorVars, dbVars>>

LoggingClose == LoggedWrite("Close")
LoggingUpdate == LoggedWrite("Update")
LoggingInsert == LoggedWrite("Insert")
LoggingRemove == LoggedWrite("Remove")

\* The prefix of the cursor: "" when the wrapped Find returned no cursor.
CursorPrefix(c, r) ==
    IF r # 0 THEN c.prefix \o <<ToString(c.cursorId + 1), ".">> ELSE <<>>

\* loggingConn.Find: prefix[:len(prefix)-1] panics when prefix is "".
LoggingFind ==
    /\ lcalls < MaxLogCalls
    /\ ~lcall.panic
    /\ \E f \in DOMAIN FindReturns, k \in DOMAIN OptionValues :
          \E r \in {FindReturns[f].cursor}, prefix \in {CursorPrefix(lc, FindReturns[f].cursor)} :
             /\ lcalls' = lcalls + 1
             /\ lc' = [lc EXCEPT !.cursorId = IF r # 0 THEN @ + 1 ELSE @]
             /\ IF Len(prefix) - 1 < 0
                THEN /\ lcall' = LogCall("Find", ConnErrors[FindReturns[f].err],
                                         r, TRUE, NoError, NilCursor)
                     /\ UNCHANGED logged
                ELSE /\ lcall' = LogCall("Find", ConnErrors[FindReturns[f].err],
                                         r, FALSE,
                                         ConnErrors[FindReturns[f].err],
                                         logCursor(r, prefix))
                     /\ logged' = Printf(lc.prefix, "Find",
                                         OptionText(OptionValues[k]),
                                         SubSeq(prefix, 1, Len(prefix) - 1)
                                           \o <<ConnErrors[FindReturns[f].err].kind>>)
    /\ UNCHANGED <<poolVars, specVars, cacheVars, oidVars, encVars,
                   cursorVars, dbVars>>

NoLogging ==
    /\ lc = NewLoggingConn(1, "")
    /\ lcalls = 0
    /\ logged = [lines |-> 0, last |-> <<>>]
    /\ lcall = NoLogCall

NextLogging ==
    LoggingClose \/ LoggingUpdate \/ LoggingInsert \/ LoggingRemove
        \/ LoggingFind

NoEncode ==
    /\ buf = NilSlice
    /\ other = Invalid
    /\ otherResult = NoResult

NoConnCalls == NoCursorCalls /\ NoCommands /\ NoLogging

NoRest == NoLookup /\ NoOidCalls /\ NoEncode /\ NoConnCalls

Init == NewPool /\ NoRecord /\ NoRest

InitCache == NewPool /\ maxIdle = 0 /\ NoRecord /\ NoRest

SpecCache == InitCache /\ [][NextCache]_vars

InitOid == NewPool /\ maxIdle = 0 /\ NoRecord /\ NoRest

SpecOid == InitOid /\ [][NextOid]_vars

InitEncode ==
    /\ NewPool
    /\ maxIdle = 0
    /\ t = <<>>
    /\ \E k \in DOMAIN Inputs : v = Inputs[k]
    /\ structSpecCache = <<>>
    /\ result = NoResult
    /\ NoLookup
    /\ NoOidCalls
    /\ \E k \in DOMAIN Buffers : buf = Buffers[k]
    /\ \E k \in DOMAIN Others : other = Others[k]
    /\ otherResult = NoResult
    /\ NoConnCalls

NextEncode == Encode \/ EncodeOther

SpecEncode == InitEncode /\ [][NextEncode]_vars

InitRecords ==
    /\ NewPool
    /\ maxIdle = 0
    /\ t \in RecordTypes
    /\ v = RecordOf(t, <<>>)
    /\ structSpecCache = <<>>
    /\ result = NoResult
    /\ NoRest

NextRecords == StructFields \/ Encode

SpecRecords == InitRecords /\ [][NextRecords]_vars

InitCursor ==
    /\ NewPool /\ maxIdle = 0 /\ NoRecord
    /\ NoLookup /\ NoOidCalls /\ NoEncode
    /\ NoCursorCalls /\ NoCommands /\ NoLogging

SpecCursor == InitCursor /\ [][NextCursor]_vars

InitDatabase == InitCursor

SpecDatabase == InitDatabase /\ [][NextDatabase]_vars

InitLogging ==
    /\ NewPool /\ maxIdle = 0 /\ NoRecord
    /\ NoLookup /\ NoOidCalls /\ NoEncode
    /\ NoCursorCalls /\ NoCommands
    /\ \E k \in DOMAIN Prefixes : lc = NewLoggingConn(1, Prefixes[k])
    /\ lcalls = 0
    /\ logged = [lines |-> 0, last |-> <<>>]
    /\ lcall = NoLogCall

SpecLogging == InitLogging /\ [][NextLogging]_vars

Next ==
    \E p \in Callers :
        \/ CallGet(p)
        \/ GetSelect(p)
        \/ GetNew(p)
        \/ Fail(p)
        \/ CloseCheck(p)
        \/ CloseSelect(p)
        \/ Drop(p)

Spec == Init /\ [][Next]_vars

(***************************************************************************)
(* Claims about the pool.                                                  *)
(***************************************************************************)

\* C1: when Close returns on a handle that wraps a connection, the
\* connection has been sent to the idle set if the idle set held fewer than
\* maxIdle connections and the connection has no permanent error; in every
\* other case the connection's own Close has been invoked and the connection
\* is not in the idle set.
C1_CloseReturnsOrReleases ==
    [][\A p \in Callers :
          (pc[p] \in {"held", "sel"} /\ pc'[p] = "done" /\ hConn[p] # NoConn) =>
              LET c == hConn[p] IN
              IF Len(conns) < maxIdle /\ ~connErr[c]
              THEN conns' = Append(conns, c) /\ closeCount'[c] = closeCount[c]
              ELSE /\ closeCount'[c] = closeCount[c] + 1
                   /\ c \notin SeqToSet(conns')]_vars

\* C2: no connection with a permanent error is in the idle set, and Get
\* never returns a handle that wraps such a connection.
C2_NoFailedConnReused ==
    /\ [](\A c \in Idle : ~connErr[c])
    /\ [][\A p \in Callers :
            (pc[p] \in {"get", "new"} /\ pc'[p] = "held") =>
                /\ hConn'[p] # NoConn
                /\ ~connErr'[hConn'[p]]]_vars

\* C2 witness: a handle whose connection failed has been closed while the
\* idle set holds a connection and another caller holds a handle from Get.
C2_Witness ==
    \E p, q \in Callers :
        /\ pc[p] = "done" /\ hConn[p] # NoConn /\ connErr[hConn[p]]
        /\ pc[q] = "held" /\ hConn[q] # NoConn
        /\ conns # <<>>

\* C3: the live count equals the idle count plus the checked-out count.
C3_LiveIsIdlePlusCheckedOut ==
    Cardinality(Live) = Len(conns) + Cardinality(CheckedOut)

\* C4: the idle set never holds more than maxIdle connections and no
\* connection is closed twice; once more than maxIdle connections have been
\* checked out at the same time and all handles are closed with every
\* connection healthy, the idle set holds exactly maxIdle connections and
\* every other connection has had its own Close invoked exactly once.
C4_IdleBoundedByMaxIdle ==
    /\ Len(conns) <= maxIdle
    /\ \A c \in Conns : closeCount[c] <= 1
    /\ (AllClosed /\ AllHealthy /\ peakOut > maxIdle) =>
           /\ Len(conns) = maxIdle
           /\ Cardinality(Idle) = maxIdle
           /\ \A c \in Conns \ Idle : closeCount[c] = 1
           /\ \A c \in Idle : closeCount[c] = 0

\* C4 witness: the case maxIdle = 2 with 3 connections checked out at the
\* same time and then all closed.
C4_Witness ==
    /\ maxIdle = 2 /\ peakOut = 3 /\ created = 3
    /\ AllClosed /\ AllHealthy
    /\ \A p \in Callers : pc[p] = "done"

\* C5: a Get that finds the idle set non-empty takes the oldest idle
\* connection (the idle count drops by one), returns a handle that wraps it
\* and does not call the factory; the factory is reached only from an empty
\* idle set.
C5_GetPrefersIdle ==
    [][\A p \in Callers :
          (pc[p] = "get" /\ pc'[p] # "get") =>
              IF conns # <<>>
              THEN /\ Len(conns') = Len(conns) - 1
                   /\ hConn'[p] = Head(conns)
                   /\ hConn'[p] \notin SeqToSet(conns')
                   /\ pc'[p] = "held"
                   /\ factoryCalls' = factoryCalls
                   /\ created' = created
              ELSE pc'[p] = "new"]_vars

\* C5 witness: a caller holds a handle that Get took from the idle set.
C5_Witness ==
    /\ \E p \in Callers : pc[p] = "held"
    /\ gets > factoryCalls + Cardinality({q \in Callers : pc[q] \in {"get", "new"}})

\* C6: a Get that reaches the factory invokes it exactly once; when the
\* factory returns an error, Get returns that error and no handle, and the
\* idle set and the other callers' handles are unchanged.
C6_FactoryErrorSurfaced ==
    [][\A p \in Callers :
          (pc[p] = "new" /\ pc'[p] # "new") =>
              /\ factoryCalls' = factoryCalls + 1
              /\ factoryErr' # NoErr =>
                    /\ pc'[p] = "idle"
                    /\ getErr'[p] = factoryErr'
                    /\ hConn'[p] = NoConn
                    /\ conns' = conns
                    /\ created' = created
                    /\ \A q \in Callers \ {p} :
                          hConn'[q] = hConn[q] /\ pc'[q] = pc[q]]_vars

\* C6 witness: a Get has returned the factory's error while another caller
\* holds a handle.
C6_Witness ==
    \E p, q \in Callers :
        /\ pc[p] = "idle" /\ getErr[p] # NoErr /\ getErr[p] = factoryErr
        /\ pc[q] = "held"

\* C7: a caller inside Get's select or inside Close's select can always
\* take its step, whatever the number of handles checked out and whatever
\* maxIdle is; with an empty idle set the step of Get leads to the factory.
C7_GetNeverWaits ==
    \A p \in Callers :
        /\ pc[p] = "get" => ENABLED GetSelect(p)
        /\ pc[p] = "sel" => ENABLED CloseSelect(p)
        /\ pc[p] = "new" => ENABLED GetNew(p)

\* C7 witness: more handles are checked out than maxIdle, the idle set is
\* empty and one more caller is inside Get.
C7_Witness ==
    /\ Cardinality(CheckedOut) > maxIdle
    /\ Cardinality(CheckedOut) >= 2
    /\ conns = <<>>
    /\ \E p \in Callers : pc[p] = "get"

(***************************************************************************)
(* Claims about the field-mapping descriptor.                              *)
(***************************************************************************)
\* The fields compileStructSpec meets in a type: the exported fields that
\* are not embedded, of the type and of the records it embeds, each with
\* its serialized name, its index path and its nesting depth.
RECURSIVE FieldsMet(_, _)
FieldsMet(typ, index) ==
    UNION { LET f == typ[k] IN
            IF f.PkgPath # "" THEN {}
            ELSE IF f.Anonymous
                 THEN IF f.Kind = "Struct"
                      THEN FieldsMet(f.Type, Append(index, k - 1))
                      ELSE {}
                 ELSE {[name |-> fieldSpecOf(f).name,
                        index |-> Append(index, k - 1),
                        depth |-> Len(index),
                        dash |-> Split(f.Tag)[1] = "-"]}
          : k \in DOMAIN typ }

Met == FieldsMet(t, <<>>)
NamesMet == {f.name : f \in Met}
Named(n) == {f \in Met : f.name = n}
Shallowest(n) == {f \in Named(n) : \A g \in Named(n) : f.depth <= g.depth}

\* The last call has returned and left the descriptor of t in the cache.
Compiled == result.call # "none" /\ ~result.panic /\ t \in DOMAIN structSpecCache
Encoded == Compiled /\ result.call = "Encode"

ElementsNamed(doc, n) == {k \in DOMAIN doc : doc[k].name = n}
EntriesNamed(l, n) == {k \in DOMAIN l : l[k].name = n}

\* C8: a field whose tag name is "-" has no entry in the descriptor, and
\* the encoded document has no element that carries the value of the field.
C8_DashFieldExcluded ==
    \A f \in Met : f.dash =>
        /\ Compiled =>
              LET ss == structSpecCache[t] IN
              /\ \A k \in DOMAIN ss.l : ss.l[k].index # f.index
              /\ \A n \in DOMAIN ss.m : ss.m[n].index # f.index
        /\ Encoded =>
              \A k \in DOMAIN result.doc :
                  result.doc[k].value # Uint32Bytes(FieldByIndex(v, f.index).w)

\* C9: when a name has a single field at its shallowest depth and further
\* fields at greater depth, the descriptor holds the shallowest field and no
\* other field of that name, and the encoded document has exactly one
\* element of that name, with the value of the shallowest field.
C9_ShallowerFieldWins ==
    \A n \in NamesMet :
        (Cardinality(Shallowest(n)) = 1 /\ Cardinality(Named(n)) > 1) =>
            LET f == CHOOSE g \in Shallowest(n) : TRUE IN
            /\ Compiled =>
                  LET ss == structSpecCache[t] IN
                  /\ n \in DOMAIN ss.m
                  /\ ss.m[n].index = f.index
                  /\ Cardinality(EntriesNamed(ss.l, n)) = 1
                  /\ \A k \in EntriesNamed(ss.l, n) : ss.l[k].index = f.index
            /\ Encoded =>
                  /\ Cardinality(ElementsNamed(result.doc, n)) = 1
                  /\ \A k \in ElementsNamed(result.doc, n) :
                        result.doc[k].value =
                            Uint32Bytes(FieldByIndex(v, f.index).w)

\* C10: when a name has two or more fields at its shallowest depth, the
\* name is in neither the lookup table nor the ordered list of the
\* descriptor, however many more fields of that name come at that depth or
\* deeper, and the encoded document has no element of that name.
C10_EqualDepthDropsName ==
    \A n \in NamesMet :
        Cardinality(Shallowest(n)) >= 2 =>
            /\ Compiled =>
                  LET ss == structSpecCache[t] IN
                  /\ n \notin DOMAIN ss.m
                  /\ EntriesNamed(ss.l, n) = {}
                  /\ \A k \in DOMAIN ss.fields : ss.fields[k].Key # n
            /\ Encoded => ElementsNamed(result.doc, n) = {}

\* C10 witness: a record with two fields of one name at the shallowest
\* depth of that name, and a third one that is deeper and met after them,
\* has been encoded.
C10_Witness ==
    /\ Encoded
    /\ \E n \in NamesMet :
          /\ Cardinality(Shallowest(n)) >= 2
          /\ \A f \in Named(n) : ~f.dash
          /\ \E g \in Named(n) \ Shallowest(n) :
                \A f \in Shallowest(n) : g.index[1] > f.index[1]

(***************************************************************************)
(* Claims about the cache of descriptors.                                  *)
(***************************************************************************)
\* C11: a type is inserted into the cache at most once and its entry is
\* never replaced or removed; every goroutine that gets a descriptor for a
\* type gets the one in the cache; the map is written only by the holder of
\* the exclusive lock and read only under the shared or the exclusive lock,
\* and the exclusive lock is held while no reader is inside.
C11_CompiledOnceUnderLock ==
    /\ [](/\ \A typ \in DOMAIN inserts : inserts[typ] = 1
          /\ allocs = Cardinality(DOMAIN structSpecCache)
          /\ \A g \in Goroutines :
                /\ cret[g].found =>
                      /\ carg[g] \in DOMAIN structSpecCache
                      /\ cret[g].addr = specAddr[carg[g]]
                      /\ cret[g].ss = structSpecCache[carg[g]]
                /\ cpc[g] \in {"read", "runlock"} =>
                      /\ g \in structSpecMutex.readers
                      /\ structSpecMutex.writer = NoWriter
                /\ cpc[g] \in {"recheck", "compile", "unlock"} =>
                      /\ structSpecMutex.writer = g
                      /\ structSpecMutex.readers = {})
    /\ [][/\ \A typ \in DOMAIN structSpecCache :
               /\ typ \in DOMAIN structSpecCache'
               /\ structSpecCache'[typ] = structSpecCache[typ]
               /\ specAddr'[typ] = specAddr[typ]
          /\ structSpecCache' # structSpecCache =>
               /\ structSpecMutex.writer # NoWriter
               /\ cpc[structSpecMutex.writer] = "compile"
               /\ structSpecMutex.readers = {}]_vars

\* C11 witness: three goroutines asked for the same unseen type at the
\* same time, all three have their descriptor and one of them compiled it.
C11_Witness ==
    /\ \A g \in Goroutines :
          cpc[g] = "idle" /\ cret[g].found /\ carg[g] = CacheTypes[1]
    /\ lookups = NumGoroutines
    /\ allocs = 1

(***************************************************************************)
(* Claims about Encode.                                                    *)
(***************************************************************************)
\* Encode(buf, v) has returned; with an error; without one.
Returned == result.call = "Encode" /\ ~result.panic
Failed == Returned /\ result.err.kind # "nil"
Succeeded == Returned /\ result.err.kind = "nil"

\* v is a record with the single field X; the value of X; its fieldSpec.
OneField == v.T = "struct" /\ Len(v.typ) = 1
FieldX == v.fields[1]
FlagX == fieldSpecOf(v.typ[1])

\* The document has no element; it has the element X and no other.
Absent == result.doc = <<>>
Present == Len(result.doc) = 1 /\ result.doc[1].name = "X"

\* x is the zero value of its type.
IsZeroValue(x) ==
    CASE x.T = "mongo.Regexp" -> x.Pattern = "" /\ x.Options = ""
      [] x.T = "mongo.CodeWithScope" -> x.Code = "" /\ x.Scope.isNil
      [] x.T = "time.Time" -> x.isZero
      [] x.T = "struct" -> \A k \in DOMAIN x.fields : x.fields[k].w = Zero64
      [] x.K = "Bool" -> ~x.b
      [] x.K = "Float64" -> x.bits = Zero64
      [] x.K = "String" /\ x.T # "mongo.ObjectId" -> x.s = ""
      [] x.K \in {"Map", "Slice", "Ptr", "Interface"} -> x.isNil
      [] OTHER -> x.w = Zero64

SignedKinds == {"Int", "Int8", "Int16", "Int32", "Int64"}
UnsignedKinds == {"Uint", "Uint8", "Uint16", "Uint32", "Uint64"}

\* x has a signed integer type; an unsigned one
IsSigned(x) == x.K \in SignedKinds /\ x.T \notin {"mongo.Timestamp", "mongo.MinMax"}
IsUnsigned(x) == x.K \in UnsignedKinds

\* The types the omit-if-empty rule is stated for.
HasEmpty(x) ==
    \/ x.K \in SignedKinds \cup UnsignedKinds
    \/ x.K \in {"Bool", "Float64", "Map", "Ptr", "Interface"}
    \/ x.K = "String" /\ x.T # "mongo.ObjectId"
    \/ x.K = "Slice" /\ x.T # "mongo.D"
    \/ x.T \in {"time.Time", "mongo.Regexp", "mongo.CodeWithScope", "struct"}

\* C12: a field flagged omitempty is absent from the document when it
\* holds the zero value of its type and present when it holds another value
\* that Encode can write.
C12_OmitEmpty ==
    (OneField /\ FlagX.omitEmpty /\ HasEmpty(FieldX) /\ Succeeded) =>
        IF IsZeroValue(FieldX) THEN Absent ELSE Present

\* The element X is an Integer32 with the low four bytes of w; an Integer64
\* with its eight bytes.
IsInt32(w) ==
    /\ Present
    /\ result.doc[1].kind = kindInt32
    /\ result.doc[1].value = Uint32Bytes(w)
IsInt64(w) ==
    /\ Present
    /\ result.doc[1].kind = kindInt64
    /\ result.doc[1].value = WriteUint64(<<>>, w)

\* C13: a signed integer of any signed type is written as Integer32 when
\* it lies in the range of int32 and as Integer64 otherwise.
C13_SignedByRange ==
    (OneField /\ ~FlagX.omitEmpty /\ IsSigned(FieldX) /\ Returned) =>
        IF InInt32(FieldX.w) THEN IsInt32(FieldX.w) ELSE IsInt64(FieldX.w)

\* C13 amended: an int is written as Integer32 when it lies in the range
\* of int32 and as Integer64 otherwise; an int8, int16 or int32 is always
\* written as Integer32 and an int64 always as Integer64.
C13_SignedByType ==
    (OneField /\ ~FlagX.omitEmpty /\ IsSigned(FieldX) /\ Returned) =>
        CASE FieldX.K = "Int" ->
                 IF InInt32(FieldX.w) THEN IsInt32(FieldX.w)
                 ELSE IsInt64(FieldX.w)
          [] FieldX.K = "Int64" -> IsInt64(FieldX.w)
          [] OTHER -> IsInt32(FieldX.w)

\* C13 witness: an int64 inside the range of int32 has been encoded.
C13_Witness ==
    /\ OneField /\ Succeeded /\ FieldX.T = "int64" /\ ~FlagX.omitEmpty
    /\ FieldX.w = Word(1)
    /\ IsInt64(FieldX.w)

\* Encode failed with the error the code builds with errors.New.
FailedWith(text) == Failed /\ result.err = errorsNew(text)

\* C14: an unsigned integer of any unsigned type is written as Integer32
\* up to the largest int32, as Integer64 above it up to the largest int64,
\* and makes Encode fail above that.
C14_UnsignedByRange ==
    (OneField /\ ~FlagX.omitEmpty /\ IsUnsigned(FieldX) /\ Returned) =>
        IF AtMostMaxInt32(FieldX.w) THEN IsInt32(FieldX.w)
        ELSE IF ~Negative64(FieldX.w) THEN IsInt64(FieldX.w)
        ELSE Failed

\* C14 amended: a uint or uint32 is written as Integer32 up to the largest
\* int32 and as Integer64 above it; a uint8 or uint16 is always written as
\* Integer32 and a uint64 always as Integer64; a uint or uint64 above the
\* largest int64 makes Encode fail.
C14_UnsignedByType ==
    (OneField /\ ~FlagX.omitEmpty /\ IsUnsigned(FieldX) /\ Returned) =>
        CASE FieldX.K \in {"Uint8", "Uint16"} -> IsInt32(FieldX.w)
          [] FieldX.K \in {"Uint", "Uint32"} ->
                 IF Negative64(FieldX.w)
                 THEN FailedWith("bson: uint value does not fit in int64")
                 ELSE IF AtMostMaxInt32(FieldX.w) THEN IsInt32(FieldX.w)
                 ELSE IsInt64(FieldX.w)
          [] FieldX.K = "Uint64" ->
                 IF Negative64(FieldX.w)
                 THEN FailedWith("bson: uint64 value does not fit in int64")
                 ELSE IsInt64(FieldX.w)

\* C14 witness: Encode has refused the largest uint.
C14_Witness ==
    /\ OneField /\ Failed /\ ~FlagX.omitEmpty
    /\ FieldX.T = "uint" /\ FieldX.w = Max64

\* C15: every error Encode returns is an EncodeTypeError.
C15_ErrorsAreTyped == Failed => result.err.kind = "EncodeTypeError"

\* The value Encode looks at: what the pointer handed in points to.
Top == IF v.K = "Ptr" /\ ~v.isNil THEN v.elem ELSE v

\* x has a type without encoder, or is a map whose keys are no strings
Unsupported(x) ==
    \/ x.K \in {"Chan", "Complex128", "Func"}
    \/ x.K = "Map" /\ ~x.isNil /\ x.keyKind # "String"

\* x has a type with an encoder and a value the encoder refuses
Refused(x) ==
    \/ x.K \in {"Uint", "Uint32", "Uint64"} /\ Negative64(x.w)
    \/ x.T = "mongo.ObjectId" /\ x.bytes # <<>> /\ Len(x.bytes) # 12
    \/ x.T = "mongo.MinMax" /\ x.w \notin {Word(1), Neg64(Word(1))}

\* C15 amended: a value of a type without encoder, a map whose keys are no
\* strings and a top-level value that is no document make Encode fail with
\* an EncodeTypeError that carries the type; an unsigned integer above the
\* largest int64, an identifier of a wrong length and an unknown MinMax make
\* it fail with a plain error that carries no type.
C15_TypeErrorsAreTyped ==
    /\ (Returned /\ Top.T # "struct" /\ Top.T \notin {"mongo.D", "mongo.BSONData"}
           /\ Top.K # "Map")
          => Failed /\ result.err = EncodeTypeError(Top.T)
    /\ (Returned /\ Top.T = "mongo.BSONData" /\ Top.Kind # kindDocument)
          => Failed /\ result.err = EncodeTypeError(Top.T)
    /\ (Returned /\ Top.K = "Map" /\ ~Top.isNil /\ Top.keyKind # "String")
          => Failed /\ result.err = EncodeTypeError(Top.T)
    /\ (Returned /\ OneField /\ Unsupported(FieldX))
          => Failed /\ result.err = EncodeTypeError(FieldX.T)
    /\ (Returned /\ OneField /\ Refused(FieldX)
           /\ ~(FlagX.omitEmpty /\ FieldX.T = "mongo.MinMax"
                   /\ FieldX.w = Zero64))
          => Failed /\ result.err.kind = "errorString"
    /\ (Failed /\ result.err.kind = "errorString")
          => Top.T = "struct" /\ \E k \in DOMAIN Top.fields : Refused(Top.fields[k])

\* C15 witness: Encode has refused an identifier of three bytes.
C15_Witness ==
    /\ OneField /\ FieldX.T = "mongo.ObjectId" /\ Len(FieldX.bytes) = 3
    /\ FailedWith("bson: object id length != 12")

\* The bytes Encode has put behind the bytes of buf.
Appended == SubSeq(result.buffer, result.before + 1, Len(result.buffer))

\* The fields of the record v up to the first one Encode fails at.
Reached ==
    {k \in DOMAIN Top.fields :
        \A j \in 1..(k - 1) :
            ~Refused(Top.fields[j]) /\ ~Unsupported(Top.fields[j])}

\* C16: when Encode fails it returns a nil slice with the error, the bytes
\* buf[0:len(buf)] of the caller are as they were, and nothing is written
\* for a field that follows the one that failed.
C16_FailureAtomic ==
    Failed =>
        /\ result.result = NilSlice
        /\ SubSeq(result.buffer, 1, result.before) = buf.bytes
        /\ Top.T = "struct" =>
               \A k \in DOMAIN result.log :
                   result.log[k].depth = 1 =>
                       \E j \in Reached : result.log[k].name = Top.typ[j].Name

\* C16 witness: Encode, handed three bytes, has failed at the second field
\* of a record after it wrote the first.
C16_Witness ==
    /\ Failed
    /\ buf.bytes = <<1, 2, 3>>
    /\ Top.T = "struct" /\ Len(Top.fields) = 3
    /\ Len(result.log) = 1
    /\ Len(result.buffer) > 3 + 4

\* The bytes from offset to end are a document: four bytes that hold their
\* number, little endian, and a zero byte at the end.
IsDocument(bytes, offset, end) ==
    /\ end - offset >= 5
    /\ SubSeq(bytes, offset + 1, offset + 4) = Uint32Bytes(Word(end - offset))
    /\ bytes[end] = 0

\* C17: when Encode of a record, a map or a D succeeds, the bytes it has
\* appended are one document whose length prefix is the number of bytes
\* appended, and every nested document, array and code with scope carries
\* the number of its own bytes.
C17_OneDocument ==
    (Succeeded /\ (Top.T \in {"struct", "mongo.D"} \/ Top.K = "Map")) =>
        /\ IsDocument(result.buffer, result.before, Len(result.buffer))
        /\ \A k \in DOMAIN result.docs :
               IsDocument(result.buffer, result.docs[k].offset,
                          result.docs[k].end)

\* v and other have one type
SameType ==
    /\ v.T = other.T
    /\ v.T = "struct" =>
          /\ v.typ = other.typ
          /\ \A k \in DOMAIN v.fields : v.fields[k].T = other.fields[k].T

\* C18: two different values of one type never encode to the same bytes,
\* as they must if decoding the bytes is to give back the value.
C18_EncodeInjective ==
    (/\ Succeeded
     /\ otherResult.call = "Encode" /\ ~otherResult.panic
     /\ otherResult.err.kind = "nil"
     /\ SameType
     /\ v # other)
        => Appended # otherResult.buffer

(***************************************************************************)
(* Claims about the counter of the identifiers.                            *)
(***************************************************************************)
\* C19: the random source is read once, on the first call, and every later
\* call of nextOidCounter returns the value of the call before it plus one.
C19_SeededOnce ==
    /\ randReads <= 1
    /\ \A i \in 2..Len(returned) : returned[i] = Inc64(returned[i - 1])

\* C20: two identifiers made one after the other are never equal, and the
\* counter values in them differ.
C20_BackToBackDiffer ==
    \A i \in 2..Len(issued) :
        /\ issued[i] # issued[i - 1]
        /\ returned[i] # returned[i - 1]

(***************************************************************************)
(* Claims about identifiers of a wrong length.                             *)
(***************************************************************************)
\* C21: encoding a record whose field holds an identifier of a length other
\* than 12 bytes, the length 0 included, makes Encode fail.
C21_BadIdentifierFails ==
    (Returned /\ OneField /\ FieldX.T = "mongo.ObjectId"
        /\ Len(FieldX.bytes) # 12) => Failed

(***************************************************************************)
(* Claims about the descriptor as a whole and about panics.                *)
(***************************************************************************)
\* C26: the ordered list of a compiled descriptor holds each name once and
\* holds the fields of the lookup table, name by name and path by path; the
\* elements of a document encoded from a record have distinct names, and so
\* have the entries of the projection StructFields hands out.
C26_ListMatchesTable ==
    Compiled =>
        LET ss == structSpecCache[t] IN
        /\ \A i, j \in DOMAIN ss.l : ss.l[i].name = ss.l[j].name => i = j
        /\ {ss.l[k].name : k \in DOMAIN ss.l} = DOMAIN ss.m
        /\ \A k \in DOMAIN ss.l :
              ss.l[k].name \in DOMAIN ss.m
                 => ss.m[ss.l[k].name].index = ss.l[k].index
        /\ \A i, j \in DOMAIN ss.fields :
              ss.fields[i].Key = ss.fields[j].Key => i = j
        /\ Encoded =>
              \A i, j \in DOMAIN result.doc :
                  result.doc[i].name = result.doc[j].name => i = j

\* C27: a call of Encode ends by returning, with the bytes or with an
\* error, and never by a panic that reaches the caller.
C27_EncodeNeverPanics == result.call = "Encode" => ~result.panic

(***************************************************************************)
(* Claims about closing a handle of the pool more than once.               *)
(***************************************************************************)
\* C28: a connection occurs at most once in the idle set, is wrapped by at
\* most one handle, and is never idle while a handle wraps it; a handle on
\* which Close has returned wraps no connection or one with a permanent
\* error, and a further Close of it returns at once: it sends nothing to
\* the idle set and does not invoke the Close of a connection.
C28_CloseIdempotent ==
    /\ [](/\ \A i, j \in DOMAIN conns : conns[i] = conns[j] => i = j
          /\ \A p \in Callers :
                hConn[p] # NoConn =>
                    /\ hConn[p] \notin Idle
                    /\ \A q \in Callers \ {p} : hConn[q] # hConn[p]
                    /\ pc[p] = "done" => Err(hConn[p]))
    /\ [][\A p \in Callers :
             (pc[p] = "done" /\ CloseCheck(p)) =>
                 /\ pc'[p] = "done"
                 /\ conns' = conns
                 /\ closeCount' = closeCount]_vars

\* C28 witness: Close has returned on three handles, one that gave its
\* connection to the idle set, one whose connection was closed for want of
\* room and one whose connection had failed; a further Close of each of
\* them is a step that leaves this state as it is.
C28_Witness ==
    \E p, q, r \in Callers :
        /\ pc[p] = "done" /\ pc[q] = "done" /\ pc[r] = "done"
        /\ hConn[p] = NoConn /\ hConn[q] = NoConn /\ hConn[r] # NoConn
        /\ p # q
        /\ Len(conns) = maxIdle /\ maxIdle >= 1
        /\ \E c \in Conns \ Idle : closeCount[c] = 1 /\ c # hConn[r]
        /\ ENABLED CloseCheck(p) /\ ENABLED CloseCheck(r)

(***************************************************************************)
(* Claims about the cursor.                                                *)
(***************************************************************************)
\* The batch of the cursor is drained; the step is a call on the cursor.
Drained == cursor.pos >= cursor.batch
Called(call) == ret'.n # ret.n /\ ret'.call = call

\* The step hands the connection one request of the kind op, and no other.
SendsOne(op) ==
    /\ Len(requests') = Len(requests) + 1
    /\ SubSeq(requests', 1, Len(requests)) = requests
    /\ requests'[Len(requests')].op = op

\* C22: has_next on a drained cursor whose cursor id is not 0 performs one
\* GetMore and is true exactly when that fetch brought a document, an empty
\* first batch included; on a drained cursor whose cursor id is 0 it is
\* false; and once a reply has carried the cursor id 0 and the batch is
\* drained, no call on the cursor sends a request.
C22_HasNextFetchesOnce ==
    [][/\ (Called("HasNext") /\ Drained /\ cursor.cursorId # 0) =>
             /\ SendsOne("GetMore")
             /\ ret'.value <=> cursor'.batch > cursor.batch
       /\ (Called("HasNext") /\ Drained /\ cursor.cursorId = 0) =>
             /\ ~ret'.value
             /\ requests' = requests
       /\ (zeroSeen /\ Drained) => requests' = requests]_vars

\* C22 witness: the first batch was empty and the cursor id not 0; the
\* first call, has_next, has sent one GetMore, got documents and the cursor
\* id 0, and returned true.
C22_Witness ==
    /\ ret = [n |-> 1, call |-> "HasNext", value |-> TRUE, err |-> "nil"]
    /\ requests = <<Request("Query", TRUE), Request("GetMore", TRUE)>>
    /\ cursor.pos = 0 /\ cursor.batch >= 1
    /\ zeroSeen

\* C23: Close of a cursor that has not been closed sends one KillCursors
\* when the cursor id is not 0 and nothing when it is 0; Close of a closed
\* cursor sends nothing; Close returns no error, whatever became of the
\* KillCursors.
C23_CloseKillsOnce ==
    [][Called("Close") =>
          /\ ret'.err = "nil"
          /\ (cursor.state = "open" /\ cursor.cursorId # 0) =>
                SendsOne("KillCursors")
          /\ (cursor.state = "open" /\ cursor.cursorId = 0) =>
                requests' = requests
          /\ cursor.state = "closed" => requests' = requests]_vars

\* C23 witness: a cursor with a cursor id other than 0 has been closed
\* twice; the one KillCursors failed and Close returned no error.
C23_Witness ==
    /\ cursor.closes = 2
    /\ cursor.cursorId # 0
    /\ ret.call = "Close" /\ ret.err = "nil"
    /\ requests = <<Request("Query", TRUE), Request("KillCursors", FALSE)>>
    /\ broken

(***************************************************************************)
(* Claims about commands.                                                  *)
(***************************************************************************)
\* The reply of the server reached the caller: Find returned a cursor, the
\* reply held a document and the decoder took it.
ReplyRead(env) == ConnErrors[env.find].kind = "nil" /\ env.doc # 0 /\ ~env.next

\* The element ok of the reply is true.
EnvelopeOk(env) == env.doc # 0 /\ ElementOf(ReplyDocs[env.doc], "ok", 0) # 0

\* The message the envelope error carries.
EnvelopeMessage(env) ==
    IF ElementOf(ReplyDocs[env.doc], "errmsg", "") = "" THEN "unspecified error"
    ELSE ElementOf(ReplyDocs[env.doc], "errmsg", "")

\* C24: Run returns nil only when the reply has ok = true; when the reply
\* was read and has ok = false, Run returns an error with the message of
\* the reply, "unspecified error" when it has none, and does not write the
\* result; the cursor is closed once when Find returned one.
C24_RunSurfacesEnvelope ==
    dbIn.op = "Run" =>
        /\ dbOut.err.kind = "nil" => EnvelopeOk(dbIn.env)
        /\ (ReplyRead(dbIn.env) /\ ~dbIn.env.decode /\ ~EnvelopeOk(dbIn.env)) =>
              /\ dbOut.err.kind = "errorString"
              /\ dbOut.err.text = EnvelopeMessage(dbIn.env)
              /\ dbOut.written = "no"
        /\ ~EnvelopeOk(dbIn.env) => dbOut.written = "no"
        /\ dbOut.closes = IF ConnErrors[dbIn.env.find].kind = "nil" THEN 1 ELSE 0

\* C24 witness: Run has met a reply with ok = false and no message, with a
\* result to write into.
C24_Witness ==
    /\ dbIn.op = "Run" /\ ~dbIn.resultIsNil
    /\ ReplyRead(dbIn.env) /\ ~dbIn.env.decode
    /\ dbIn.env.doc = 4
    /\ dbOut.err.kind = "errorString" /\ dbOut.err.text = "unspecified error"
    /\ dbOut.closes = 1

\* C25: LastError returns the error of the transport or of the decoder as
\* it is; else the envelope error when ok = false; else, when the field err
\* of the reply is not empty, a MongoError with the code of the reply; and
\* nil only when ok = true and err is empty.
C25_LastErrorReportsFailure ==
    dbIn.op = "LastError" =>
        LET env == dbIn.env IN
        /\ ConnErrors[env.find].kind # "nil" =>
              dbOut.err.kind = ConnErrors[env.find].kind
        /\ (ConnErrors[env.find].kind = "nil" /\ env.doc = 0) =>
              dbOut.err.kind = "Done"
        /\ (ConnErrors[env.find].kind = "nil" /\ env.doc # 0 /\ env.next) =>
              dbOut.err.kind = "decode"
        /\ (ReplyRead(env) /\ ~EnvelopeOk(env)) =>
              /\ dbOut.err.kind = "errorString"
              /\ dbOut.err.text = EnvelopeMessage(env)
        /\ (ReplyRead(env) /\ EnvelopeOk(env)
               /\ ElementOf(ReplyDocs[env.doc], "err", "") # "") =>
              /\ dbOut.err.kind = "MongoError"
              /\ dbOut.err.Err = ElementOf(ReplyDocs[env.doc], "err", "")
              /\ dbOut.err.Code = ElementOf(ReplyDocs[env.doc], "code", 0)
        /\ dbOut.err.kind = "nil" <=>
              /\ ReplyRead(env) /\ EnvelopeOk(env)
              /\ ElementOf(ReplyDocs[env.doc], "err", "") = ""

\* C25 witness: LastError has met a reply with ok = true, a duplicate key
\* in err and the code 11000.
C25_Witness ==
    /\ dbIn.op = "LastError"
    /\ ReplyRead(dbIn.env) /\ dbIn.env.doc = 7
    /\ dbOut.err.kind = "MongoError" /\ dbOut.err.Code = 11000
    /\ dbOut.me.Code = 11000

\* The name of the database in a namespace: what comes before the first
\* separator.
RECURSIVE DatabaseNamed(_)
DatabaseNamed(namespace) ==
    IF namespace = <<>> \/ Head(namespace) = "." THEN <<>>
    ELSE <<Head(namespace)>> \o DatabaseNamed(Tail(namespace))

SafeOps == {"Insert", "Update", "Remove"}

\* C29: a write of SafeConn calls the write of the wrapped connection
\* first; when that returns an error, the error is returned as it is and
\* nothing else is called; when it returns none, the last-error command,
\* the one of the SafeConn or the default, is sent next on the same
\* connection to the $cmd collection of the database of the namespace, and
\* nothing else.
C29_LastErrorAfterWrite ==
    (dbIn.op \in SafeOps /\ DatabaseNamed(dbIn.namespace) # <<>>) =>
        /\ dbOut.wire[1] =
              ConnCall(dbIn.conn, dbIn.op, dbIn.namespace, "documents")
        /\ ConnErrors[dbIn.write].kind # "nil" =>
              /\ Len(dbOut.wire) = 1
              /\ dbOut.err = ConnErrors[dbIn.write]
        /\ ConnErrors[dbIn.write].kind = "nil" =>
              /\ Len(dbOut.wire) = 2
              /\ dbOut.wire[2] =
                    ConnCall(dbIn.conn, "Find",
                             DatabaseNamed(dbIn.namespace) \o <<".", "$cmd">>,
                             IF dbIn.cmd = "nil" THEN DefaultLastErrorCmd
                             ELSE dbIn.cmd)

\* C29 witness: an Update on the second connection, with a namespace of
\* three names, went well and the last-error command reported a duplicate
\* key.
C29_Witness ==
    /\ dbIn.op = "Update" /\ dbIn.conn = 2
    /\ dbIn.namespace = <<"db", ".", "c", ".", "x">>
    /\ ConnErrors[dbIn.write].kind = "nil"
    /\ Len(dbOut.wire) = 2
    /\ dbOut.err.kind = "MongoError"

(***************************************************************************)
(* Claims about the logging wrapper.                                       *)
(***************************************************************************)
\* C30: every call on the logging wrapper returns, and returns the error
\* the wrapped connection returned; Find returns no cursor when the wrapped
\* Find returned none and a cursor around the wrapped one when it returned
\* one.
C30_LoggingTransparent ==
    lcall.op # "none" =>
        /\ ~lcall.panic
        /\ lcall.err = lcall.wrappedErr
        /\ lcall.cursor.Cursor = lcall.wrappedCursor

====
